---- MODULE Spec2Model ----
(***************************************************************************)
(* Model of the agentic-search research agent: Agent::ask (the hop loop),  *)
(* Planner::plan, Reader::read / parse_decision, Synthesizer::synthesize,  *)
(* RunLogger::write, and main's single-question and batch commands.        *)
(*                                                                         *)
(* A text (Rust String / &str) is a sequence of characters, each a         *)
(* one-character string; "U2", "U3", "U4" stand for one character whose    *)
(* UTF-8 encoding has 2, 3, 4 bytes.  Indices are 1-based here and 0-based *)
(* in the source; differences of indices are the same.                     *)
(***************************************************************************)
EXTENDS Integers, Sequences, FiniteSets, TLC

---------------------------------------------------------------------------
(* Characters and texts                                                    *)

Quote == "\""
Backslash == "\\"
Newline == "\n"

\* &str / String helpers --------------------------------------------------

RECURSIVE Find(_, _, _)
\* str::find(c): the first index >= i holding c, 0 for None.
Find(t, c, i) ==
    IF i > Len(t) THEN 0
    ELSE IF t[i] = c THEN i
    ELSE Find(t, c, i + 1)

RECURSIVE RFind(_, _, _)
\* str::rfind(c): the last index <= i holding c, 0 for None.
RFind(t, c, i) ==
    IF i < 1 THEN 0
    ELSE IF t[i] = c THEN i
    ELSE RFind(t, c, i - 1)

\* &text[start..=end]: Rust turns the inclusive range into start..end+1 and
\* panics when start > end+1 (or end+1 > len); all indices here fall on
\* character boundaries because '[', ']', '{', '}' are one byte each.
SliceInclusivePanics(t, start, end) == start > end + 1 \/ end > Len(t)

SliceInclusive(t, start, end) == SubSeq(t, start, end)

RECURSIVE Join(_, _)
\* [String]::join(sep)
Join(ss, sep) ==
    IF ss = <<>> THEN <<>>
    ELSE IF Len(ss) = 1 THEN ss[1]
    ELSE ss[1] \o sep \o Join(Tail(ss), sep)

RECURSIVE Flatten(_)
Flatten(ss) == IF ss = <<>> THEN <<>> ELSE ss[1] \o Flatten(Tail(ss))

---------------------------------------------------------------------------
(* serde_json::from_str, as far as the two call sites use it: the JSON     *)
(* grammar over the characters of the input texts, typed deserialization   *)
(* into Vec<String> and into ReaderOutput.                                 *)

Fail == [ok |-> FALSE, val |-> <<>>, next |-> 0]

Ok(v, n) == [ok |-> TRUE, val |-> v, next |-> n]

IsWs(c) == c \in {" ", "\n", "\t", "\r"}

Digits == {"0", "1", "2", "3", "4", "5", "6", "7", "8", "9"}

\* The one-character escapes of a JSON string and what each decodes to.
\* (\uXXXX escapes do not occur in the input texts of this model.)
Escapes == {Quote, Backslash, "/", "n", "t", "r"}

Unescape(c) ==
    CASE c = "n" -> "\n"
      [] c = "t" -> "\t"
      [] c = "r" -> "\r"
      [] OTHER -> c

RECURSIVE SkipWs(_, _)
SkipWs(t, i) == IF i <= Len(t) /\ IsWs(t[i]) THEN SkipWs(t, i + 1) ELSE i

At(t, i, c) == i <= Len(t) /\ t[i] = c

RECURSIVE StrBody(_, _, _)
\* The characters of a string literal after its opening quote.
StrBody(t, i, acc) ==
    IF i > Len(t) THEN Fail
    ELSE IF t[i] = Quote THEN Ok(acc, i + 1)
    ELSE IF t[i] = Backslash
         THEN IF i + 1 <= Len(t) /\ t[i + 1] \in Escapes
              THEN StrBody(t, i + 2, Append(acc, Unescape(t[i + 1])))
              ELSE Fail
    ELSE IF t[i] \in {"\n", "\t", "\r"} THEN Fail
    ELSE StrBody(t, i + 1, Append(acc, t[i]))

StringAt(t, i) == IF At(t, i, Quote) THEN StrBody(t, i + 1, <<>>) ELSE Fail

\* Deserialize a String: anything but a string literal is an invalid type.
ParseString(t, i0) == StringAt(t, SkipWs(t, i0))

\* A parse result r followed by whitespace and the character c: r moved past c.
Then(t, r, c) ==
    IF r.ok /\ At(t, SkipWs(t, r.next), c) THEN Ok(r.val, SkipWs(t, r.next) + 1) ELSE Fail

RECURSIVE VecElems(_, _, _)
RECURSIVE VecAfterElem(_, _, _)
\* The elements of a Vec<String> after "[", the next element being due at i.
VecElems(t, i, acc) == VecAfterElem(t, acc, ParseString(t, i))

\* After the element s: "]" ends the array, "," brings the next element.
VecAfterElem(t, acc, s) ==
    IF ~s.ok THEN Fail
    ELSE IF Then(t, s, "]").ok THEN Ok(Append(acc, s.val), Then(t, s, "]").next)
    ELSE IF Then(t, s, ",").ok THEN VecElems(t, Then(t, s, ",").next, Append(acc, s.val))
    ELSE Fail

VecAt(t, i) ==
    IF ~At(t, i, "[") THEN Fail
    ELSE IF At(t, SkipWs(t, i + 1), "]") THEN Ok(<<>>, SkipWs(t, i + 1) + 1)
    ELSE VecElems(t, i + 1, <<>>)

\* Deserialize a Vec<String>: a JSON array whose elements are all strings.
ParseVecString(t, i0) == VecAt(t, SkipWs(t, i0))

\* Whether the literal word w stands at index i of t.
Literal(t, i, w) == i + Len(w) - 1 <= Len(t) /\ SubSeq(t, i, i + Len(w) - 1) = w

LitNull == <<"n", "u", "l", "l">>
LitTrue == <<"t", "r", "u", "e">>
LitFalse == <<"f", "a", "l", "s", "e">>

RECURSIVE SkipDigits(_, _)
SkipDigits(t, i) == IF i <= Len(t) /\ t[i] \in Digits THEN SkipDigits(t, i + 1) ELSE i

DigitsAt(t, j) ==
    IF j > Len(t) \/ t[j] \notin Digits THEN Fail
    ELSE IF t[j] = "0" THEN Ok(<<>>, j + 1)
    ELSE Ok(<<>>, SkipDigits(t, j))

\* An integer literal (fractions and exponents do not occur in the inputs).
SkipNumber(t, i) == DigitsAt(t, IF At(t, i, "-") THEN i + 1 ELSE i)

RECURSIVE SkipValue(_, _)
RECURSIVE ValueAt(_, _)
RECURSIVE SkipArrayRest(_, _)
RECURSIVE ArrayAfterValue(_, _)
RECURSIVE SkipObjectRest(_, _)
RECURSIVE ObjectAfterKey(_, _)
RECURSIVE ObjectAfterValue(_, _)

\* serde::de::IgnoredAny: any one JSON value, its content dropped.
SkipValue(t, i0) == ValueAt(t, SkipWs(t, i0))

ValueAt(t, i) ==
    IF i > Len(t) THEN Fail
    ELSE IF t[i] = Quote THEN StrBody(t, i + 1, <<>>)
    ELSE IF t[i] = "["
         THEN IF At(t, SkipWs(t, i + 1), "]") THEN Ok(<<>>, SkipWs(t, i + 1) + 1)
              ELSE SkipArrayRest(t, i + 1)
    ELSE IF t[i] = "{"
         THEN IF At(t, SkipWs(t, i + 1), "}") THEN Ok(<<>>, SkipWs(t, i + 1) + 1)
              ELSE SkipObjectRest(t, i + 1)
    ELSE IF Literal(t, i, LitNull) THEN Ok(<<>>, i + Len(LitNull))
    ELSE IF Literal(t, i, LitTrue) THEN Ok(<<>>, i + Len(LitTrue))
    ELSE IF Literal(t, i, LitFalse) THEN Ok(<<>>, i + Len(LitFalse))
    ELSE SkipNumber(t, i)

SkipArrayRest(t, i) == ArrayAfterValue(t, SkipValue(t, i))

ArrayAfterValue(t, v) ==
    IF Then(t, v, "]").ok THEN Then(t, v, "]")
    ELSE IF Then(t, v, ",").ok THEN SkipArrayRest(t, Then(t, v, ",").next)
    ELSE Fail

SkipObjectRest(t, i) == ObjectAfterKey(t, Then(t, ParseString(t, i), ":"))

ObjectAfterKey(t, k) == IF k.ok THEN ObjectAfterValue(t, SkipValue(t, k.next)) ELSE Fail

ObjectAfterValue(t, v) ==
    IF Then(t, v, "}").ok THEN Then(t, v, "}")
    ELSE IF Then(t, v, ",").ok THEN SkipObjectRest(t, Then(t, v, ",").next)
    ELSE Fail

\* from_str::<T>: the value, then nothing but whitespace up to the end.
AtEnd(t, r) == r.ok /\ SkipWs(t, r.next) > Len(t)

\* The outcome of from_str: Ok(value), or Err with `none` standing in.
Parsed(t, r, none) == IF AtEnd(t, r) THEN [ok |-> TRUE, val |-> r.val] ELSE [ok |-> FALSE, val |-> none]

\* serde_json::from_str::<Vec<String>>(text)
FromStrVecString(t) == Parsed(t, ParseVecString(t, 1), <<>>)

---------------------------------------------------------------------------
(* ReaderOutput { decision: String, follow_up_queries: Option<Vec<String>> } *)
(* as #[derive(Deserialize)] reads it: from a JSON object (unknown keys      *)
(* ignored, a repeated known key an error, a missing decision an error, a    *)
(* missing follow_up_queries None) or from a JSON array of its fields in     *)
(* declaration order.                                                        *)

KeyDecision == <<"d", "e", "c", "i", "s", "i", "o", "n">>
KeyFollowUp ==
    <<"f", "o", "l", "l", "o", "w", "_", "u", "p", "_", "q", "u", "e", "r", "i", "e", "s">>
WordContinue == <<"c", "o", "n", "t", "i", "n", "u", "e">>
WordSynthesize == <<"s", "y", "n", "t", "h", "e", "s", "i", "z", "e">>

\* Option<Vec<String>>: None is [some |-> FALSE], Some(v) is [some |-> TRUE, v |-> v].
None == [some |-> FALSE, v |-> <<>>]
Some(x) == [some |-> TRUE, v |-> x]

SomeOf(r) == IF r.ok THEN Ok(Some(r.val), r.next) ELSE Fail

OptionVecAt(t, i) ==
    IF Literal(t, i, LitNull) THEN Ok(None, i + Len(LitNull)) ELSE SomeOf(VecAt(t, i))

\* Deserialize an Option<Vec<String>>: null is None, anything else a Vec<String>.
ParseOptionVecString(t, i0) == OptionVecAt(t, SkipWs(t, i0))

\* The fields read so far while visiting a map.
NoFields == [has_decision |-> FALSE, decision |-> <<>>,
             has_follow_up |-> FALSE, follow_up_queries |-> None]

ReaderOutputOf(st) ==
    [decision |-> st.decision, follow_up_queries |-> st.follow_up_queries]

\* The value of the entry whose key is key, read at i, put into the fields st.
EntryValue(t, i, st, key) ==
    IF key = KeyDecision
    THEN IF st.has_decision \/ ~ParseString(t, i).ok THEN Fail
         ELSE Ok([st EXCEPT !.has_decision = TRUE, !.decision = ParseString(t, i).val],
                 ParseString(t, i).next)
    ELSE IF key = KeyFollowUp
    THEN IF st.has_follow_up \/ ~ParseOptionVecString(t, i).ok THEN Fail
         ELSE Ok([st EXCEPT !.has_follow_up = TRUE,
                            !.follow_up_queries = ParseOptionVecString(t, i).val],
                 ParseOptionVecString(t, i).next)
    ELSE IF SkipValue(t, i).ok THEN Ok(st, SkipValue(t, i).next)
    ELSE Fail

RECURSIVE MapEntries(_, _, _)
RECURSIVE MapAfterKey(_, _, _)
RECURSIVE MapAfterValue(_, _)
\* visit_map: the entries of the object after "{", a key being due at i.
MapEntries(t, i, st) == MapAfterKey(t, st, Then(t, ParseString(t, i), ":"))

MapAfterKey(t, st, k) ==
    IF k.ok THEN MapAfterValue(t, EntryValue(t, k.next, st, k.val)) ELSE Fail

\* After an entry, v.val being the fields so far: "," brings the next entry,
\* "}" ends the object, which must have had a decision.
MapAfterValue(t, v) ==
    IF Then(t, v, ",").ok THEN MapEntries(t, Then(t, v, ",").next, v.val)
    ELSE IF Then(t, v, "}").ok /\ v.val.has_decision
         THEN Ok(ReaderOutputOf(v.val), Then(t, v, "}").next)
    ELSE Fail

\* visit_seq, second element: follow_up_queries, then "]".
SeqSecond(t, d, f) ==
    IF Then(t, f, "]").ok
    THEN Ok([decision |-> d.val, follow_up_queries |-> f.val], Then(t, f, "]").next)
    ELSE Fail

\* visit_seq: "[" decision "," follow_up_queries "]", exactly two elements.
SeqFirst(t, d) == IF d.ok THEN SeqSecond(t, d, ParseOptionVecString(t, d.next)) ELSE Fail

SeqFields(t, i) == SeqFirst(t, Then(t, ParseString(t, i), ","))

ReaderOutputAt(t, i) ==
    IF At(t, i, "{")
    THEN IF At(t, SkipWs(t, i + 1), "}") THEN Fail ELSE MapEntries(t, i + 1, NoFields)
    ELSE IF At(t, i, "[") THEN SeqFields(t, i + 1)
    ELSE Fail

\* Deserialize a ReaderOutput (deserialize_struct: a map or a sequence).
ParseReaderOutput(t, i0) == ReaderOutputAt(t, SkipWs(t, i0))

\* serde_json::from_str::<ReaderOutput>(json_str)
FromStrReaderOutput(t) == Parsed(t, ParseReaderOutput(t, 1), ReaderOutputOf(NoFields))

---------------------------------------------------------------------------
(* Planner::plan's parsing of the model's text (planner.rs 28-39)          *)

\* The bracketed span never tried: the question is the only fallback.
PlanFallbackQuestionOnly(question, text) == [kind |-> "ok", queries |-> <<question>>]

\* The closure's bracket fallback: the text from the first '[' to the last ']'.
PlanFallback(question, text) ==
    LET start == Find(text, "[", 1)
        end == RFind(text, "]", Len(text))
        parsed == FromStrVecString(SliceInclusive(text, start, end))
    IN  IF start # 0 /\ end # 0
        THEN IF SliceInclusivePanics(text, start, end)
             THEN [kind |-> "panic", queries |-> <<>>]
             ELSE IF parsed.ok THEN [kind |-> "ok", queries |-> parsed.val]
             ELSE [kind |-> "ok", queries |-> <<question>>]
        ELSE [kind |-> "ok", queries |-> <<question>>]

\* The parsed queries cut to the first three.
PlanQueriesAtMostThree(question, text) ==
    LET whole == FromStrVecString(text)
    IN  IF whole.ok
        THEN [kind |-> "ok",
              queries |-> SubSeq(whole.val, 1, IF Len(whole.val) < 3 THEN Len(whole.val) ELSE 3)]
        ELSE PlanFallback(question, text)

\* The queries plan() returns for the model's text, or the panic it dies of.
PlanQueries(question, text) ==
    LET whole == FromStrVecString(text)
    IN  IF whole.ok THEN [kind |-> "ok", queries |-> whole.val]
        ELSE PlanFallback(question, text)

---------------------------------------------------------------------------
(* parse_decision (reader.rs 97-123)                                       *)

Synthesize == [kind |-> "Synthesize", follow_up_queries |-> <<>>]
Continue(qs) == [kind |-> "Continue", follow_up_queries |-> qs]
DecisionPanic == [kind |-> "panic", follow_up_queries |-> <<>>]

\* Continue taken on the word alone, an empty follow-up list included.
DecisionOfAllowingEmpty(output) ==
    IF output.decision = WordContinue /\ output.follow_up_queries.some
    THEN Continue(output.follow_up_queries.v)
    ELSE Synthesize

\* The decision an Ok(output) stands for (reader.rs 110-122).
DecisionOf(output) ==
    IF output.decision = WordContinue
       /\ output.follow_up_queries.some
       /\ output.follow_up_queries.v # <<>>
    THEN Continue(output.follow_up_queries.v)
    ELSE Synthesize

\* The object taken to end at the first '}' (find) instead of the last (rfind).
parse_decision_first_brace(text) ==
    LET start == Find(text, "{", 1)
        end == Find(text, "}", 1)
        json_str == IF start # 0 /\ end # 0
                    THEN SliceInclusive(text, start, end)
                    ELSE text
        output == FromStrReaderOutput(json_str)
    IN  IF start # 0 /\ end # 0 /\ SliceInclusivePanics(text, start, end)
        THEN DecisionPanic
        ELSE IF output.ok THEN DecisionOf(output.val)
        ELSE Synthesize

parse_decision(text) ==
    LET start == Find(text, "{", 1)
        end == RFind(text, "}", Len(text))
        json_str == IF start # 0 /\ end # 0
                    THEN SliceInclusive(text, start, end)
                    ELSE text
        output == FromStrReaderOutput(json_str)
    IN  IF start # 0 /\ end # 0 /\ SliceInclusivePanics(text, start, end)
        THEN DecisionPanic
        ELSE IF output.ok THEN DecisionOf(output.val)
        ELSE Synthesize

---------------------------------------------------------------------------
(* u32 counters.  A u32 is kept as two 16-bit halves [hi, lo]; an exact    *)
(* (mathematical) sum is the same record with hi unbounded.                *)

Half == 256 * 256

U32(n) == [hi |-> n \div Half, lo |-> n % Half]
U32Max == [hi |-> Half - 1, lo |-> Half - 1]
Zero == U32(0)

\* The mathematical sum of two counters.
ExactAdd(a, b) ==
    [hi |-> a.hi + b.hi + ((a.lo + b.lo) \div Half), lo |-> (a.lo + b.lo) % Half]

\* Whether an exact value does not fit a u32.
Overflows(w) == w.hi >= Half

\* The u32 an exact value wraps to (arithmetic modulo 2^32).
Wrap(w) == [hi |-> w.hi % Half, lo |-> w.lo]

RECURSIVE ExactSum(_)
\* Iterator::sum over a sequence of counters, exact.
ExactSum(vs) == IF vs = <<>> THEN Zero ELSE ExactAdd(vs[1], ExactSum(Tail(vs)))

---------------------------------------------------------------------------
(* Bounds of the model and the inputs drawn by the environment             *)

\* The largest Config.max_hops tried.
MaxHops == 2
\* Config.top_k: the Retriever returns at most this many passages.
TopK == 1
\* The longest JSON array of query strings rendered as a Planner response.
MaxArrayLen == 4
\* The longest text made of arbitrary punctuation tried as a response.
MaxJunkLen == 3

\* The question asked.
Question == <<"w", "h", "y", "?">>

\* UTF-8 width of a character, and str::len (bytes) of a text.
ByteWidth(c) == CASE c = "U2" -> 2 [] c = "U3" -> 3 [] c = "U4" -> 4 [] OTHER -> 1

RECURSIVE ByteLen(_)
ByteLen(t) ==
    IF t = <<>> THEN 0
    ELSE IF Len(t) = 1 THEN ByteWidth(t[1])
    ELSE ByteLen(SubSeq(t, 1, Len(t) \div 2))
            + ByteLen(SubSeq(t, (Len(t) \div 2) + 1, Len(t)))

\* Passage texts the Retriever can return.
P1 == <<"a", "b", "c", "d", "e">>
P2 == <<"U3", "x">>
Passages == {P1, P2}

RECURSIVE SeqsUpTo(_, _)
\* All sequences over S of length 0..n.
SeqsUpTo(S, n) ==
    IF n = 0 THEN {<<>>}
    ELSE LET shorter == SeqsUpTo(S, n - 1)
         IN  shorter \cup {Append(q, x) : q \in {r \in shorter : Len(r) = n - 1}, x \in S}

\* Token usage a Model Invoker response can report.
Usages == {[input_tokens |-> U32(3), output_tokens |-> U32(1)],
           [input_tokens |-> U32Max, output_tokens |-> U32Max]}

\* The answer text of the Synthesizer's model response.
Answers == {<<"A">>}

---------------------------------------------------------------------------
(* Rendering of model responses: how the texts the environment answers     *)
(* with are written down (a JSON writer, independent of the reader above). *)

EscapeChar(c) ==
    CASE c = Quote -> <<Backslash, Quote>>
      [] c = Backslash -> <<Backslash, Backslash>>
      [] c = "\n" -> <<Backslash, "n">>
      [] OTHER -> <<c>>

RECURSIVE EscapeText(_)
EscapeText(s) == IF s = <<>> THEN <<>> ELSE EscapeChar(s[1]) \o EscapeText(Tail(s))

RenderString(s) == <<Quote>> \o EscapeText(s) \o <<Quote>>

RenderArray(items, sep) ==
    <<"[">> \o Join([i \in 1..Len(items) |-> RenderString(items[i])], sep) \o <<"]">>

\* Query strings a model writes: plain, with a space, with a quote and a bracket.
QueryValues == {<<"a">>, <<"b", " ", "c">>, <<"x", Quote, "]">>}
Separators == {<<",">>, <<",", " ">>}

---------------------------------------------------------------------------
(* The Reader's prompt (reader.rs 50-84) and truncate (reader.rs 125-131)  *)

\* truncate(p, 200) at reader.rs 68 and 76.
TruncateAt == 200
\* accumulated_context.len() > 5 and take(5), reader.rs 58 and 65.
SummaryWindow == 5

DecimalDigits == <<"0", "1", "2", "3", "4", "5", "6", "7", "8", "9">>

RECURSIVE Decimal(_)
\* Display of an unsigned integer.
Decimal(n) ==
    IF n < 10 THEN <<DecimalDigits[n + 1]>>
    ELSE Decimal(n \div 10) \o <<DecimalDigits[(n % 10) + 1]>>

\* The byte index at which the first k characters of s end.
ByteIndex(s, k) == ByteLen(SubSeq(s, 1, k))

\* str::floor_char_boundary: the byte index of the last character boundary
\* of s that is not above index.
FloorCharBoundary(s, index) ==
    LET below == {k \in 0..Len(s) : ByteIndex(s, k) <= index}
    IN  ByteIndex(s, CHOOSE k \in below : \A j \in below : j <= k)

\* &s[..n] for n a character boundary of s.
BytePrefix(s, n) ==
    SubSeq(s, 1, CHOOSE k \in 0..Len(s) : ByteIndex(s, k) = n)

truncate(s, max_chars) ==
    IF ByteLen(s) <= max_chars THEN s
    ELSE BytePrefix(s, FloorCharBoundary(s, max_chars))

\* iter().rev(), take(n), and enumerate().map(..).collect() on a Vec.
Rev(v) == [i \in 1..Len(v) |-> v[Len(v) + 1 - i]]
Take(v, n) == SubSeq(v, 1, IF Len(v) < n THEN Len(v) ELSE n)

TextPassage == <<"[", "P", "a", "s", "s", "a", "g", "e", " ">>
TextContext == <<"[", "C", "o", "n", "t", "e", "x", "t", " ">>
TextAccumulated ==
    <<" ", "p", "a", "s", "s", "a", "g", "e", "s", " ",
      "a", "c", "c", "u", "m", "u", "l", "a", "t", "e", "d", " ",
      "s", "o", " ", "f", "a", "r", ".", " ",
      "L", "a", "t", "e", "s", "t", " ", "5", ":", Newline>>
TextQuestion == <<"Q", "u", "e", "s", "t", "i", "o", "n", ":", " ">>
TextNewPassages ==
    <<Newline, Newline, "N", "e", "w", " ", "P", "a", "s", "s", "a", "g", "e", "s", ":", Newline>>
TextAccumulatedContext ==
    <<Newline, Newline, "A", "c", "c", "u", "m", "u", "l", "a", "t", "e", "d", " ",
      "C", "o", "n", "t", "e", "x", "t", ":", Newline>>

\* format!("[Passage {}] {}", i + 1, p), with i counted from 0 in the source.
PassageLine(i, p) == TextPassage \o Decimal(i) \o <<"]", " ">> \o p
\* format!("[Context {}] {}", i + 1, truncate(p, 200))
ContextLine(i, p) == TextContext \o Decimal(i) \o <<"]", " ">> \o truncate(p, TruncateAt)

\* reader.rs 50-55
PassagesText(new_passages) ==
    Join([i \in 1..Len(new_passages) |-> PassageLine(i, new_passages[i])],
         <<Newline, Newline>>)

ContextLines(entries) ==
    Join([i \in 1..Len(entries) |-> ContextLine(i, entries[i])], <<Newline>>)

\* The first five entries shown instead of the last five.
ContextSummaryOldestFive(context) ==
    IF Len(context) > SummaryWindow
    THEN Decimal(Len(context)) \o TextAccumulated
            \o ContextLines(Take(context, SummaryWindow))
    ELSE ContextLines(context)

\* reader.rs 58-79
ContextSummary(context) ==
    IF Len(context) > SummaryWindow
    THEN Decimal(Len(context)) \o TextAccumulated
            \o ContextLines(Rev(Take(Rev(context), SummaryWindow)))
    ELSE ContextLines(context)

\* reader.rs 81-84
UserMessage(question, new_passages, context) ==
    TextQuestion \o question \o TextNewPassages \o PassagesText(new_passages)
        \o TextAccumulatedContext \o ContextSummary(context)

---------------------------------------------------------------------------
(* State of one Agent::ask run                                             *)

VARIABLES
    top_k,                \* Config.top_k
    lines,                \* the lines of the evaluation file (main.rs 69-71)
    line_index,           \* how many of them the batch loop has taken
    run_logs,             \* Vec<RunLog> of the batch, main.rs 73
    errors,               \* the batch's error count, main.rs 74
    output,               \* what main printed on standard output
    writers,              \* runs writing the telemetry file at the same time
    user_message,         \* the prompt read() sent last, reader.rs 81
    max_hops,             \* Config.max_hops
    pc,                   \* where ask() stands
    pending_queries,      \* mod.rs 69
    hop_number,           \* the loop variable of mod.rs 71
    hops,                 \* Vec<HopLog>, mod.rs 50
    accumulated_context,  \* Vec<String>, mod.rs 51
    plan_response,        \* the Planner's LlmResponse, mod.rs 55
    passage_texts,        \* this hop's passages, mod.rs 88
    reader_response,      \* the Reader's LlmResponse, mod.rs 95
    decision,             \* the Reader's decision, mod.rs 95
    synth_response,       \* the Synthesizer's LlmResponse, mod.rs 140
    run_log,              \* the RunLog built at mod.rs 160
    store,                \* logs/runs.jsonl: the chunks written to it, in order
    result,               \* what ask() returned, if it has
    calls                 \* the calls made to the collaborators and their returns

\* What Agent::ask never touches: the configuration's top_k, the state of main
\* around the call, and the other writers of the telemetry file.
frame == <<top_k, lines, line_index, run_logs, errors, output, writers>>

vars == <<frame, user_message, max_hops, pc, pending_queries, hop_number, hops, accumulated_context,
          plan_response, passage_texts, reader_response, decision,
          synth_response, run_log, store, result, calls>>

NoResponse == [text |-> <<>>, input_tokens |-> Zero, output_tokens |-> Zero, present |-> FALSE]
Response(text, usage) ==
    [text |-> text, input_tokens |-> usage.input_tokens,
     output_tokens |-> usage.output_tokens, present |-> TRUE]

NoDecision == [kind |-> "none", follow_up_queries |-> <<>>]

NoRunLog ==
    [present |-> FALSE, question |-> <<>>, hops |-> <<>>,
     synthesis_input_tokens |-> Zero, synthesis_output_tokens |-> Zero,
     plan_input_tokens |-> Zero, plan_output_tokens |-> Zero,
     total_llm_input_tokens |-> Zero, total_llm_output_tokens |-> Zero,
     final_answer |-> <<>>]

\* A record an earlier run left in the store, and its line terminator.
EarlierRun == [NoRunLog EXCEPT !.present = TRUE, !.question = <<"e">>, !.final_answer = <<"E">>]
JsonChunk(r) == [kind |-> "json", run |-> r]
NewlineChunk == [kind |-> "newline", run |-> NoRunLog]
InitialStore == <<JsonChunk(EarlierRun), NewlineChunk>>

NoResult == [kind |-> "none", at |-> "none"]

Event(op, ev, arg) == [op |-> op, ev |-> ev, arg |-> arg]

Init ==
    /\ top_k = TopK
    /\ lines = <<>>
    /\ line_index = 0
    /\ run_logs = <<>>
    /\ errors = 0
    /\ output = <<>>
    /\ writers = <<>>
    /\ user_message = <<>>
    /\ max_hops \in 0..MaxHops
    /\ pc = "start"
    /\ pending_queries = <<>>
    /\ hop_number = 0
    /\ hops = <<>>
    /\ accumulated_context = <<>>
    /\ plan_response = NoResponse
    /\ passage_texts = <<>>
    /\ reader_response = NoResponse
    /\ decision = NoDecision
    /\ synth_response = NoResponse
    /\ run_log = NoRunLog
    /\ store = InitialStore
    /\ result = NoResult
    /\ calls = <<>>

\* A `?` on an Err, or a panic: ask() is left at once with that outcome.
Leave(kind, op) ==
    /\ pc' = IF kind = "panic" THEN "panicked" ELSE "failed"
    /\ result' = [kind |-> kind, at |-> op]

---------------------------------------------------------------------------
(* Step 1: plan (mod.rs 53-69, planner.rs 22-42)                           *)

PlanCall ==
    /\ pc = "start"
    /\ pc' = "await_plan"
    /\ calls' = Append(calls, Event("planner", "call", Question))
    /\ UNCHANGED <<frame, user_message, max_hops, pending_queries, hop_number, hops, accumulated_context,
                   plan_response, passage_texts, reader_response, decision,
                   synth_response, run_log, store, result>>

\* The model answered with one of Texts; plan() parses it.
PlanReturn(Texts) ==
    /\ pc = "await_plan"
    /\ \E text \in Texts, usage \in Usages :
         LET planned == PlanQueries(Question, text)
         IN  /\ plan_response' = Response(text, usage)
             /\ IF planned.kind = "panic"
                THEN /\ Leave("panic", "planner")
                     /\ calls' = Append(calls, Event("planner", "panic", <<>>))
                     /\ UNCHANGED pending_queries
                ELSE /\ pending_queries' = planned.queries
                     /\ pc' = "loop_head"
                     /\ calls' = Append(calls, Event("planner", "ok", planned.queries))
                     /\ UNCHANGED result
    /\ UNCHANGED <<frame, user_message, max_hops, hop_number, hops, accumulated_context, passage_texts,
                   reader_response, decision, synth_response, run_log, store>>

\* The Model Invoker failed: complete(...).await? returns the error.
PlanErr ==
    /\ pc = "await_plan"
    /\ Leave("err", "planner")
    /\ calls' = Append(calls, Event("planner", "err", <<>>))
    /\ UNCHANGED <<frame, user_message, max_hops, pending_queries, hop_number, hops, accumulated_context,
                   plan_response, passage_texts, reader_response, decision,
                   synth_response, run_log, store>>

---------------------------------------------------------------------------
(* The hop loop (mod.rs 71-136)                                            *)

\* The range taken as inclusive: 0..=max_hops.
HopsRemainInclusive == hop_number <= max_hops

\* The bound tested only after the first hop, as a do-while loop would.
HopsRemainAfterFirst == hop_number = 0 \/ hop_number < max_hops

\* The range taken twice as long: 0..2*max_hops.
HopsRemainTwiceOver == hop_number < 2 * max_hops

\* for hop_number in 0..self.config.max_hops
HopsRemain == hop_number < max_hops

\* if pending_queries.is_empty() { break; }
PendingEmpty == pending_queries = <<>>

\* A hop starts: the pending queries are joined and searched for.
HopBegin ==
    /\ pc = "loop_head"
    /\ HopsRemain
    /\ ~PendingEmpty
    /\ pc' = "await_search"
    /\ calls' = Append(calls, Event("retriever", "call",
                    [query_text |-> Join(pending_queries, <<" ">>), top_k |-> top_k]))
    /\ UNCHANGED <<frame, user_message, max_hops, pending_queries, hop_number, hops, accumulated_context,
                   plan_response, passage_texts, reader_response, decision,
                   synth_response, run_log, store, result>>

\* Nothing pending taken as a reason to plan again rather than to break.
LoopExitReplans ==
    /\ pc = "loop_head"
    /\ ~HopsRemain \/ PendingEmpty
    /\ pc' = IF PendingEmpty /\ HopsRemain THEN "start" ELSE "synth"
    /\ UNCHANGED <<frame, user_message, max_hops, pending_queries, hop_number, hops, accumulated_context,
                   plan_response, passage_texts, reader_response, decision,
                   synth_response, run_log, store, result, calls>>

\* The loop is left because the range is exhausted or nothing is pending.
LoopExit ==
    /\ pc = "loop_head"
    /\ ~HopsRemain \/ PendingEmpty
    /\ pc' = "synth"
    /\ UNCHANGED <<frame, user_message, max_hops, pending_queries, hop_number, hops, accumulated_context,
                   plan_response, passage_texts, reader_response, decision,
                   synth_response, run_log, store, result, calls>>

\* The passages already in the context left out: a deduplicating context.
ExtendSkippingKnown(context, new) ==
    context \o SelectSeq(new, LAMBDA p : \A i \in 1..Len(context) : context[i] # p)

\* The new passages put in front of the context instead of behind it.
ExtendPrepending(context, new) == new \o context

\* The context replaced by the new passages instead of extended.
ExtendReplacing(context, new) == new

\* accumulated_context.extend(passage_texts.clone())
Extend(context, new) == context \o new

\* What search(query_text, top_k) can return: at most top_k passages.
SearchResults == SeqsUpTo(Passages, top_k)

\* The search returned; the passages are appended and the Reader is called.
SearchReturn(Results) ==
    /\ pc = "await_search"
    /\ \E passages \in Results :
         /\ passage_texts' = passages
         /\ accumulated_context' = Extend(accumulated_context, passages)
         /\ calls' = calls \o
                <<Event("retriever", "ok", passages),
                  Event("reader", "call",
                        [new_passages |-> passages,
                         accumulated_context |-> accumulated_context'])>>
    /\ user_message' = UserMessage(Question, passage_texts', accumulated_context')
    /\ pc' = "await_read"
    /\ UNCHANGED <<frame, max_hops, pending_queries, hop_number, hops, plan_response,
                   reader_response, decision, synth_response, run_log, store, result>>

SearchErr ==
    /\ pc = "await_search"
    /\ Leave("err", "retriever")
    /\ calls' = Append(calls, Event("retriever", "err", <<>>))
    /\ UNCHANGED <<frame, user_message, max_hops, pending_queries, hop_number, hops, accumulated_context,
                   plan_response, passage_texts, reader_response, decision,
                   synth_response, run_log, store>>

\* The model answered the Reader with one of Texts; read() parses the decision.
ReadReturn(Texts) ==
    /\ pc = "await_read"
    /\ \E text \in Texts, usage \in Usages :
         LET d == parse_decision(text)
         IN  /\ reader_response' = Response(text, usage)
             /\ IF d.kind = "panic"
                THEN /\ Leave("panic", "reader")
                     /\ calls' = Append(calls, Event("reader", "panic", <<>>))
                     /\ UNCHANGED decision
                ELSE /\ decision' = d
                     /\ pc' = "hop_end"
                     /\ calls' = Append(calls, Event("reader", "ok", d))
                     /\ UNCHANGED result
    /\ UNCHANGED <<frame, user_message, max_hops, pending_queries, hop_number, hops, accumulated_context,
                   plan_response, passage_texts, synth_response, run_log, store>>

ReadErr ==
    /\ pc = "await_read"
    /\ Leave("err", "reader")
    /\ calls' = Append(calls, Event("reader", "err", <<>>))
    /\ UNCHANGED <<frame, user_message, max_hops, pending_queries, hop_number, hops, accumulated_context,
                   plan_response, passage_texts, reader_response, decision,
                   synth_response, run_log, store>>

\* The count of follow-up queries left out of the summary.
DecisionSummaryWithoutCount(d) ==
    IF d.kind = "Continue" THEN WordContinue ELSE WordSynthesize

\* format!("continue({})", follow_up_queries.len()) or "synthesize"
DecisionSummary(d) ==
    IF d.kind = "Continue"
    THEN WordContinue \o <<"(">> \o Decimal(Len(d.follow_up_queries)) \o <<")">>
    ELSE WordSynthesize

\* passage_texts.iter().map(|t| (t.len() / 4) as u32).sum()
RECURSIVE TokensInPassages(_)
TokensInPassages(ps) ==
    IF ps = <<>> THEN 0 ELSE (ByteLen(ps[1]) \div 4) + TokensInPassages(Tail(ps))

\* The HopLog with num_results counting the queries searched.
HopLogOfCountingQueries(n, queries, passages, response, d) ==
    [hop_number |-> n,
     queries |-> queries,
     num_results |-> Len(queries),
     tokens_in_passages |-> TokensInPassages(passages),
     llm_input_tokens |-> response.input_tokens,
     llm_output_tokens |-> response.output_tokens,
     decision |-> DecisionSummary(d)]

\* The HopLog with hops numbered from one.
HopLogOfCountedFromOne(n, queries, passages, response, d) ==
    [hop_number |-> n + 1,
     queries |-> queries,
     num_results |-> Len(passages),
     tokens_in_passages |-> TokensInPassages(passages),
     llm_input_tokens |-> response.input_tokens,
     llm_output_tokens |-> response.output_tokens,
     decision |-> DecisionSummary(d)]

\* The HopLog of mod.rs 101-119 (latencies left out).
HopLogOf(n, queries, passages, response, d) ==
    [hop_number |-> n,
     queries |-> queries,
     num_results |-> Len(passages),
     tokens_in_passages |-> TokensInPassages(passages),
     llm_input_tokens |-> response.input_tokens,
     llm_output_tokens |-> response.output_tokens,
     decision |-> DecisionSummary(d)]

\* The loop body's end with the follow-up queries dropped: the next hop
\* searches the queries of this one again.
RecordHopKeepingPending ==
    /\ pc = "hop_end"
    /\ hops' = Append(hops, [hop_number |-> hop_number,
                             queries |-> pending_queries,
                             num_results |-> Len(passage_texts),
                             tokens_in_passages |-> TokensInPassages(passage_texts),
                             llm_input_tokens |-> reader_response.input_tokens,
                             llm_output_tokens |-> reader_response.output_tokens,
                             decision |-> DecisionSummary(decision)])
    /\ IF decision.kind = "Continue"
       THEN /\ hop_number' = hop_number + 1
            /\ pc' = "loop_head"
       ELSE /\ pc' = "synth"
            /\ UNCHANGED hop_number
    /\ passage_texts' = <<>>
    /\ reader_response' = NoResponse
    /\ decision' = NoDecision
    /\ UNCHANGED <<frame, user_message, max_hops, pending_queries, accumulated_context,
                   plan_response, synth_response, run_log, store, result, calls>>

\* The rest of the loop body: the HopLog is pushed and the decision acted on.
RecordHop ==
    /\ pc = "hop_end"
    /\ hops' = Append(hops, HopLogOf(hop_number, pending_queries, passage_texts,
                                     reader_response, decision))
    /\ IF decision.kind = "Continue"
       THEN /\ pending_queries' = decision.follow_up_queries
            /\ hop_number' = hop_number + 1
            /\ pc' = "loop_head"
       ELSE /\ pc' = "synth"
            /\ UNCHANGED <<pending_queries, hop_number>>
    /\ passage_texts' = <<>>
    /\ reader_response' = NoResponse
    /\ decision' = NoDecision
    /\ UNCHANGED <<frame, user_message, max_hops, accumulated_context, plan_response, synth_response,
                   run_log, store, result, calls>>

---------------------------------------------------------------------------
(* Synthesis, totals and the RunLog (mod.rs 138-176)                       *)

\* self.synthesizer.synthesize(question, &accumulated_context)
SynthCall ==
    /\ pc = "synth"
    /\ pc' = "await_synth"
    /\ calls' = Append(calls, Event("synthesizer", "call", accumulated_context))
    /\ UNCHANGED <<frame, user_message, max_hops, pending_queries, hop_number, hops, accumulated_context,
                   plan_response, passage_texts, reader_response, decision,
                   synth_response, run_log, store, result>>

\* synthesize() returns the model's text verbatim.
SynthReturn ==
    /\ pc = "await_synth"
    /\ \E text \in Answers, usage \in Usages :
         synth_response' = Response(text, usage)
    /\ pc' = "totals"
    /\ calls' = Append(calls, Event("synthesizer", "ok", <<>>))
    /\ UNCHANGED <<frame, user_message, max_hops, pending_queries, hop_number, hops, accumulated_context,
                   plan_response, passage_texts, reader_response, decision,
                   run_log, store, result>>

\* The Synthesizer's error swallowed: the run goes on with an empty answer.
SynthErrSwallowed ==
    /\ pc = "await_synth"
    /\ synth_response' = Response(<<>>, [input_tokens |-> Zero, output_tokens |-> Zero])
    /\ pc' = "totals"
    /\ calls' = Append(calls, Event("synthesizer", "err", <<>>))
    /\ UNCHANGED <<frame, user_message, max_hops, pending_queries, hop_number, hops, accumulated_context,
                   plan_response, passage_texts, reader_response, decision,
                   run_log, store, result>>

SynthErr ==
    /\ pc = "await_synth"
    /\ Leave("err", "synthesizer")
    /\ calls' = Append(calls, Event("synthesizer", "err", <<>>))
    /\ UNCHANGED <<frame, user_message, max_hops, pending_queries, hop_number, hops, accumulated_context,
                   plan_response, passage_texts, reader_response, decision,
                   synth_response, run_log, store>>

HopInputTokens(hs) == [i \in 1..Len(hs) |-> hs[i].llm_input_tokens]
HopOutputTokens(hs) == [i \in 1..Len(hs) |-> hs[i].llm_output_tokens]

\* plan + synth + hops.iter().map(..).sum::<u32>(), before it is cut to 32 bits.
TotalOf(plan, synth, hopValues) == ExactAdd(ExactAdd(plan, synth), ExactSum(hopValues))

TotalInput ==
    TotalOf(plan_response.input_tokens, synth_response.input_tokens, HopInputTokens(hops))
TotalOutput ==
    TotalOf(plan_response.output_tokens, synth_response.output_tokens, HopOutputTokens(hops))

\* The RunLog of mod.rs 160-176 (id, timestamp, latencies and cost left out).
RunLogOf(total_in, total_out) ==
    [present |-> TRUE,
     question |-> Question,
     hops |-> hops,
     synthesis_input_tokens |-> synth_response.input_tokens,
     synthesis_output_tokens |-> synth_response.output_tokens,
     plan_input_tokens |-> plan_response.input_tokens,
     plan_output_tokens |-> plan_response.output_tokens,
     total_llm_input_tokens |-> total_in,
     total_llm_output_tokens |-> total_out,
     final_answer |-> synth_response.text]

\* The u32 additions of mod.rs 151-156 as a build without overflow checks
\* performs them (and as any build does when nothing overflows).
Totals ==
    /\ pc = "totals"
    /\ run_log' = RunLogOf(Wrap(TotalInput), Wrap(TotalOutput))
    /\ pc' = "write"
    /\ UNCHANGED <<frame, user_message, max_hops, pending_queries, hop_number, hops, accumulated_context,
                   plan_response, passage_texts, reader_response, decision,
                   synth_response, store, result, calls>>

\* The same additions in a build with overflow checks: an overflow panics.
TotalsPanic ==
    /\ pc = "totals"
    /\ Overflows(TotalInput) \/ Overflows(TotalOutput)
    /\ Leave("panic", "totals")
    /\ UNCHANGED <<frame, user_message, max_hops, pending_queries, hop_number, hops, accumulated_context,
                   plan_response, passage_texts, reader_response, decision,
                   synth_response, run_log, store, calls>>

---------------------------------------------------------------------------
(* RunLogger::write (logger.rs 75-87), called at mod.rs 178                *)

\* OpenOptions::new().create(true).append(true).open(&path)
WriteOpen ==
    /\ pc = "write"
    /\ pc' = "write_json"
    /\ calls' = Append(calls, Event("logger", "call", run_log))
    /\ UNCHANGED <<frame, user_message, max_hops, pending_queries, hop_number, hops, accumulated_context,
                   plan_response, passage_texts, reader_response, decision,
                   synth_response, run_log, store, result>>

WriteOpenErr ==
    /\ pc = "write"
    /\ Leave("err", "logger")
    /\ calls' = calls \o <<Event("logger", "call", run_log), Event("logger", "err", <<>>)>>
    /\ UNCHANGED <<frame, user_message, max_hops, pending_queries, hop_number, hops, accumulated_context,
                   plan_response, passage_texts, reader_response, decision,
                   synth_response, run_log, store>>

\* writeln!(file, "{}", json): the record's text is written first ...
WriteJson ==
    /\ pc = "write_json"
    /\ store' = Append(store, JsonChunk(run_log))
    /\ pc' = "write_newline"
    /\ UNCHANGED <<frame, user_message, max_hops, pending_queries, hop_number, hops, accumulated_context,
                   plan_response, passage_texts, reader_response, decision,
                   synth_response, run_log, result, calls>>

\* ... and the line terminator after it; then write() and ask() return Ok.
WriteNewline ==
    /\ pc = "write_newline"
    /\ store' = Append(store, NewlineChunk)
    /\ pc' = "done"
    /\ result' = [kind |-> "ok", at |-> "none"]
    /\ calls' = Append(calls, Event("logger", "ok", <<>>))
    /\ UNCHANGED <<frame, user_message, max_hops, pending_queries, hop_number, hops, accumulated_context,
                   plan_response, passage_texts, reader_response, decision,
                   synth_response, run_log>>

\* The write's error dropped: ask() returns Ok(run_log) all the same.
WriteErrIgnored ==
    /\ pc \in {"write_json", "write_newline"}
    /\ pc' = "done"
    /\ result' = [kind |-> "ok", at |-> "none"]
    /\ calls' = Append(calls, Event("logger", "err", <<>>))
    /\ UNCHANGED <<frame, user_message, max_hops, pending_queries, hop_number, hops,
                   accumulated_context, plan_response, passage_texts, reader_response,
                   decision, synth_response, run_log, store>>

\* Either write of writeln! fails: write() returns the error, ask() with it.
WriteErr ==
    /\ pc \in {"write_json", "write_newline"}
    /\ Leave("err", "logger")
    /\ calls' = Append(calls, Event("logger", "err", <<>>))
    /\ UNCHANGED <<frame, user_message, max_hops, pending_queries, hop_number, hops, accumulated_context,
                   plan_response, passage_texts, reader_response, decision,
                   synth_response, run_log, store>>

---------------------------------------------------------------------------
(* The responses the models give in a full run                             *)

ContinueObject(qs) ==
    <<"{">> \o RenderString(KeyDecision) \o <<":">> \o RenderString(WordContinue)
        \o <<",">> \o RenderString(KeyFollowUp) \o <<":">> \o RenderArray(qs, <<",">>)
        \o <<"}">>
SynthesizeObject ==
    <<"{">> \o RenderString(KeyDecision) \o <<":">> \o RenderString(WordSynthesize) \o <<"}">>

\* Planner responses: two queries, an empty array, prose, brackets the wrong way round.
RunPlannerTexts ==
    {RenderArray(<<<<"a">>, <<"b", " ", "c">>>>, <<",", " ">>),
     <<"[", "]">>,
     <<"n", "o">>,
     <<"]", "x", "[">>}

\* Reader responses: continue with two queries, synthesize, continue with no
\* queries, braces the wrong way round.
RunReaderTexts ==
    {ContinueObject(<<<<"d">>, <<"e">>>>),
     SynthesizeObject,
     ContinueObject(<<>>),
     <<"}", "x", "{">>}

Next ==
    \/ PlanCall
    \/ PlanReturn(RunPlannerTexts)
    \/ PlanErr
    \/ HopBegin
    \/ LoopExit
    \/ SearchReturn(SearchResults)
    \/ SearchErr
    \/ ReadReturn(RunReaderTexts)
    \/ ReadErr
    \/ RecordHop
    \/ SynthCall
    \/ SynthReturn
    \/ SynthErr
    \/ Totals
    \/ TotalsPanic
    \/ WriteOpen
    \/ WriteOpenErr
    \/ WriteJson
    \/ WriteNewline
    \/ WriteErr

Spec == Init /\ [][Next]_vars

---------------------------------------------------------------------------
(* Reading the record of calls                                             *)

CallsOf(op, ev) == {i \in 1..Len(calls) : calls[i].op = op /\ calls[i].ev = ev}
Count(op, ev) == Cardinality(CallsOf(op, ev))

RECURSIVE Retrieved(_)
\* Every passage the Retriever returned in the run, in the order returned.
Retrieved(log) ==
    IF log = <<>> THEN <<>>
    ELSE (IF log[1].op = "retriever" /\ log[1].ev = "ok" THEN log[1].arg ELSE <<>>)
         \o Retrieved(Tail(log))

Collaborators == {"planner", "retriever", "reader", "synthesizer"}

\* Where ask() stands while a call to op is in flight.
AwaitOf(op) ==
    CASE op = "planner" -> {"await_plan"}
      [] op = "retriever" -> {"await_search"}
      [] op = "reader" -> {"await_read"}
      [] op = "synthesizer" -> {"await_synth"}
      [] op = "logger" -> {"write_json", "write_newline"}

---------------------------------------------------------------------------
(* Claims about Agent::ask                                                 *)

\* C1: at most max_hops hops execute: the Retriever calls, the Reader calls
\* and the HopRecords of a run each number at most max_hops.
C1_AtMostMaxHops ==
    /\ Count("retriever", "call") <= max_hops
    /\ Count("reader", "call") <= max_hops
    /\ Len(hops) <= max_hops
    /\ run_log.present => Len(run_log.hops) <= max_hops

\* A run that ended at the cap: the last of max_hops >= 2 hops said Continue.
C1_CapReached ==
    /\ pc = "done"
    /\ max_hops >= 2
    /\ Len(run_log.hops) = max_hops
    /\ SubSeq(run_log.hops[max_hops].decision, 1, Len(WordContinue)) = WordContinue

\* C2: however the loop was left, the Synthesizer is called, once, over the
\* whole accumulated context (every passage retrieved, in retrieval order),
\* and an empty context raises no error.
C2_SynthesizedOnceOverFullContext ==
    /\ Count("synthesizer", "call") <= 1
    /\ pc = "synth" => Count("synthesizer", "call") = 0 /\ ENABLED SynthCall
    /\ pc = "await_synth" => ENABLED SynthReturn
    /\ pc \in {"await_synth", "totals", "write", "write_json", "write_newline", "done"}
         => Count("synthesizer", "call") = 1
    /\ \A i \in CallsOf("synthesizer", "call") :
         /\ calls[i].arg = Retrieved(calls)
         /\ calls[i].arg = accumulated_context

\* A run that hit the cap with the Reader still saying Continue and with no
\* passage retrieved in any hop, and still completed.
C2_EmptyContextAtCap ==
    /\ pc = "done"
    /\ max_hops >= 1
    /\ Len(hops) = max_hops
    /\ SubSeq(hops[max_hops].decision, 1, Len(WordContinue)) = WordContinue
    /\ accumulated_context = <<>>
    /\ Count("synthesizer", "ok") = 1

\* C3: with max_hops = 0 the Planner is called once, the Retriever and the
\* Reader never, the Synthesizer once over an empty context, and when the
\* Planner, the Synthesizer and the telemetry write succeed the run returns
\* a RunRecord without HopRecords.
C3_ZeroHops ==
    max_hops = 0 =>
        /\ Count("planner", "call") <= 1
        /\ Count("retriever", "call") = 0
        /\ Count("reader", "call") = 0
        /\ hops = <<>>
        /\ accumulated_context = <<>>
        /\ Count("synthesizer", "call") <= 1
        /\ \A i \in CallsOf("synthesizer", "call") : calls[i].arg = <<>>
        /\ pc = "loop_head" => ~ENABLED HopBegin /\ ENABLED LoopExit
        /\ (/\ Count("planner", "ok") = 1
            /\ Count("synthesizer", "ok") = 1
            /\ Count("logger", "ok") = 1)
             => /\ result.kind = "ok"
                /\ run_log.present
                /\ run_log.hops = <<>>
                /\ Count("planner", "call") = 1
                /\ Count("synthesizer", "call") = 1

\* A completed run with max_hops = 0.
C3_ZeroHopRunDone == max_hops = 0 /\ pc = "done" /\ result.kind = "ok"

\* C4: a failed Planner, Retriever, Reader or Synthesizer call ends the run
\* with that error: it is the last call of the run (no retry, nothing later),
\* and the telemetry store is as it was before the run.
C4_FailureAborts ==
    \A i \in 1..Len(calls) :
        (calls[i].ev = "err" /\ calls[i].op \in Collaborators) =>
            /\ i = Len(calls)
            /\ i > 1 /\ calls[i - 1].op = calls[i].op /\ calls[i - 1].ev = "call"
            /\ Count(calls[i].op, "err") = 1
            /\ pc = "failed"
            /\ result = [kind |-> "err", at |-> calls[i].op]
            /\ ~run_log.present
            /\ store = InitialStore

\* The Synthesizer failed after two completed hops.
C4_SynthFailsAfterHops ==
    /\ result = [kind |-> "err", at |-> "synthesizer"]
    /\ Len(hops) >= 2
    /\ store = InitialStore

\* C5: in every completed run the total input tokens are exactly plan +
\* synthesis + the hops' input tokens, and the same for the output tokens,
\* whatever the counters: the u32 sums never overflow or wrap.
C5_TotalsExact ==
    run_log.present =>
        /\ run_log.total_llm_input_tokens =
             TotalOf(run_log.plan_input_tokens, run_log.synthesis_input_tokens,
                     HopInputTokens(run_log.hops))
        /\ run_log.total_llm_output_tokens =
             TotalOf(run_log.plan_output_tokens, run_log.synthesis_output_tokens,
                     HopOutputTokens(run_log.hops))

\* C6: the calls of a run are strictly ordered: Planner first and once, then
\* (Retriever, Reader) pairs, then the Synthesizer, then the telemetry write;
\* each call has returned before the next one starts.
C6_StrictOrder ==
    \A i \in 1..Len(calls) :
        LET e == calls[i]
            before == calls[i - 1]
        IN  IF e.ev = "call"
            THEN /\ i < Len(calls) =>
                      calls[i + 1].op = e.op /\ calls[i + 1].ev # "call"
                 /\ i = Len(calls) => pc \in AwaitOf(e.op)
                 /\ CASE e.op = "planner" -> i = 1
                      [] e.op = "retriever" ->
                           i > 1 /\ before.ev = "ok" /\ before.op \in {"planner", "reader"}
                      [] e.op = "reader" ->
                           i > 1 /\ before.ev = "ok" /\ before.op = "retriever"
                      [] e.op = "synthesizer" ->
                           i > 1 /\ before.ev = "ok" /\ before.op \in {"planner", "reader"}
                      [] e.op = "logger" ->
                           i > 1 /\ before.ev = "ok" /\ before.op = "synthesizer"
            ELSE i > 1 /\ before.op = e.op /\ before.ev = "call"

\* A completed run of two hops: Planner, two (Retriever, Reader) pairs,
\* Synthesizer, write.
C6_TwoHopRunDone ==
    /\ pc = "done"
    /\ Count("planner", "call") = 1
    /\ Count("retriever", "call") = 2
    /\ Count("reader", "call") = 2
    /\ Count("synthesizer", "call") = 1
    /\ Count("logger", "ok") = 1

IsPrefix(a, b) == Len(a) <= Len(b) /\ SubSeq(b, 1, Len(a)) = a

\* C11: the accumulated context is append-only within a run: over every step
\* its old value is a prefix of its new value (so its length never
\* decreases), and the step that takes the Retriever's result appends exactly
\* the passages returned, in the order returned, duplicates kept; no other
\* step changes it.
C11_ContextAppendOnly ==
    [][/\ IsPrefix(accumulated_context, accumulated_context')
       /\ IF pc = "await_search" /\ pc' = "await_read"
          THEN /\ calls'[Len(calls') - 1].op = "retriever"
               /\ calls'[Len(calls') - 1].ev = "ok"
               /\ accumulated_context' =
                    accumulated_context \o calls'[Len(calls') - 1].arg
          ELSE accumulated_context' = accumulated_context]_vars

\* Two hops retrieved the same passage and the context holds it twice.
C11_DuplicateKept ==
    /\ Count("retriever", "ok") = 2
    /\ Len(accumulated_context) = 2
    /\ accumulated_context[1] = accumulated_context[2]

\* The context handed to the Reader at the call recorded at calls[i].
ContextAt(i) == calls[i].arg.accumulated_context

\* C12 as claimed: the context the Reader sees at a hop is a proper prefix of
\* the context it sees at every later hop of the run.
C12_StrictlyGrowing ==
    \A i, j \in CallsOf("reader", "call") :
        i < j => /\ IsPrefix(ContextAt(i), ContextAt(j))
                 /\ ContextAt(i) # ContextAt(j)

\* C12 amended: the context at a hop is a prefix of the context at every later
\* hop, and from one hop to the next it grows by exactly the passages the
\* Retriever returned at the later hop: it is a proper prefix exactly when
\* that result was not empty.
C12_GrowingByRetrieved ==
    \A i, j \in CallsOf("reader", "call") :
        i < j =>
            /\ IsPrefix(ContextAt(i), ContextAt(j))
            /\ (\A k \in CallsOf("reader", "call") : ~(i < k /\ k < j)) =>
                 /\ ContextAt(j) = ContextAt(i) \o calls[j].arg.new_passages
                 /\ calls[j].arg.new_passages = calls[j - 1].arg
                 /\ (ContextAt(i) # ContextAt(j)) <=> (calls[j].arg.new_passages # <<>>)

\* The Reader was called at two hops and saw one passage, then two.
C12_SecondHopSawMore ==
    \E i, j \in CallsOf("reader", "call") :
        /\ i < j
        /\ Len(ContextAt(i)) = 1
        /\ Len(ContextAt(j)) = 2

\* The decisions the Reader returned, as recorded at calls[i], and which hop
\* of the run (counted from 1) that was.
ReaderOks == CallsOf("reader", "ok")
HopOf(i) == Cardinality({j \in ReaderOks : j <= i})

\* "continue(N)" for one digit N, and "synthesize", letter by letter.
SummaryText(d) ==
    IF d.kind = "Continue"
    THEN <<"c", "o", "n", "t", "i", "n", "u", "e", "(",
           DecimalDigits[Len(d.follow_up_queries) + 1], ")">>
    ELSE <<"s", "y", "n", "t", "h", "e", "s", "i", "z", "e">>

\* C19: every executed hop leaves exactly one HopRecord, whose decision
\* summary is "continue(N)" with N >= 1 the number of follow-up queries when
\* the Reader said Continue and "synthesize" when it said Synthesize; and the
\* loop acts on that same decision: after Synthesize no further search or
\* read happens, after Continue the next hop (if the cap allows one) searches
\* for exactly the follow-up queries, and at the cap none follows.
C19_OneSummaryPerHopActedOn ==
    /\ Len(hops) = Cardinality(ReaderOks) - (IF pc = "hop_end" THEN 1 ELSE 0)
    /\ \A i \in ReaderOks :
         LET d == calls[i].arg
             k == HopOf(i)
         IN  /\ d.kind \in {"Continue", "Synthesize"}
             /\ d.kind = "Continue" => Len(d.follow_up_queries) >= 1
             /\ k <= Len(hops) => hops[k].decision = SummaryText(d)
             /\ (i = Len(calls) /\ pc = "hop_end") => decision = d
             /\ d.kind = "Synthesize" =>
                  /\ \A j \in (i + 1)..Len(calls) : calls[j].op \notin {"retriever", "reader"}
                  /\ (i = Len(calls) /\ pc # "hop_end") => pc = "synth"
             /\ (d.kind = "Continue" /\ k < max_hops) =>
                  /\ i < Len(calls) =>
                       /\ calls[i + 1].op = "retriever"
                       /\ calls[i + 1].ev = "call"
                       /\ calls[i + 1].arg.query_text = Join(d.follow_up_queries, <<" ">>)
                  /\ (i = Len(calls) /\ pc # "hop_end") =>
                       /\ pc = "loop_head"
                       /\ pending_queries = d.follow_up_queries
                       /\ ENABLED HopBegin
             /\ (d.kind = "Continue" /\ k >= max_hops) =>
                  /\ \A j \in (i + 1)..Len(calls) : calls[j].op \notin {"retriever", "reader"}
                  /\ (i = Len(calls) /\ pc = "loop_head") => ~ENABLED HopBegin /\ ENABLED LoopExit

\* A completed run whose first hop recorded "continue(2)" and whose second
\* recorded "synthesize".
C19_ContinueTwoThenSynthesize ==
    /\ pc = "done"
    /\ Len(run_log.hops) = 2
    /\ run_log.hops[1].decision = <<"c", "o", "n", "t", "i", "n", "u", "e", "(", "2", ")">>
    /\ run_log.hops[2].decision = <<"s", "y", "n", "t", "h", "e", "s", "i", "z", "e">>

----------------------------------------------------------------------------
(* Claims about the hop loop's bookkeeping                                 *)

\* C22: with max_hops >= 1 the pending queries are never empty when the loop
\* tests them, so the empty-pending exit is never taken and every run that
\* gets past the loop has executed at least one hop.
C22_PendingNeverEmptyAtLoopTest ==
    max_hops >= 1 =>
      /\ pc = "loop_head" => ~PendingEmpty
      /\ pc \in {"synth", "await_synth", "totals", "write", "done"} => Len(hops) >= 1

\* "continue(N)": the word, then a decimal number in parentheses.
IsContinueSummary(t) ==
    /\ Len(t) >= Len(WordContinue) + 3
    /\ SubSeq(t, 1, Len(WordContinue)) = WordContinue
    /\ t[Len(WordContinue) + 1] = "("
    /\ t[Len(t)] = ")"
    /\ \A i \in (Len(WordContinue) + 2)..(Len(t) - 1) :
         \E d \in 1..Len(DecimalDigits) : t[i] = DecimalDigits[d]

\* C24: in a completed RunRecord every HopRecord but the last has a
\* "continue(N)" decision, a "synthesize" decision is only on the last one,
\* and a run of at least one but fewer than max_hops HopRecords ends on
\* "synthesize".
C24_DecisionsOrdered ==
    run_log.present =>
      LET h == run_log.hops
      IN  /\ \A i \in 1..Len(h) :
               /\ i < Len(h) => IsContinueSummary(h[i].decision)
               /\ h[i].decision = WordSynthesize => i = Len(h)
          /\ (Len(h) >= 1 /\ Len(h) < max_hops) => h[Len(h)].decision = WordSynthesize

C24_SynthesizeBelowCap ==
    /\ run_log.present
    /\ max_hops = 2
    /\ Len(run_log.hops) = 1
    /\ run_log.hops[1].decision = WordSynthesize

\* The position in the record of the k-th event ev of op.
NthCall(op, ev, k) ==
    CHOOSE i \in CallsOf(op, ev) : Cardinality({j \in CallsOf(op, ev) : j <= i}) = k

\* The queries hop k (counted from 1) is to search: the Planner's list for
\* the first hop, the follow-up queries of the previous hop's decision after.
QueriesDue(k) ==
    IF k = 1 THEN calls[NthCall("planner", "ok", 1)].arg
    ELSE calls[NthCall("reader", "ok", k - 1)].arg.follow_up_queries

\* C25: the first HopRecord's queries are the list the Planner returned and
\* those of hop k+1 the follow-up queries of hop k's Continue; each hop makes
\* exactly one Retriever call, for the hop's queries joined into one text
\* with the configured result count as limit.
C25_QueriesHandedOn ==
    LET searches == Count("retriever", "call")
    IN  /\ Len(hops) <= searches
        /\ searches <= Len(hops) + 1
        /\ searches = Len(hops) + 1 =>
             pc \in {"await_search", "await_read", "hop_end", "failed", "panicked"}
        /\ \A k \in 1..searches :
             /\ Count("planner", "ok") = 1
             /\ k > 1 => /\ Count("reader", "ok") >= k - 1
                         /\ calls[NthCall("reader", "ok", k - 1)].arg.kind = "Continue"
             /\ calls[NthCall("retriever", "call", k)].arg =
                  [query_text |-> Join(QueriesDue(k), <<" ">>), top_k |-> top_k]
             /\ k <= Len(hops) => hops[k].queries = QueriesDue(k)
             /\ (k = searches /\ k > Len(hops)) => pending_queries = QueriesDue(k)

C25_SecondHopSearchedFollowUps ==
    /\ Len(hops) = 2
    /\ Len(hops[1].queries) = 2
    /\ hops[2].queries = <<<<"d">>, <<"e">>>>
    /\ hops[2].queries # hops[1].queries
    /\ Count("retriever", "call") = 2

RECURSIVE SumResults(_)
\* num_results summed over a sequence of HopRecords.
SumResults(h) ==
    IF h = <<>> THEN 0 ELSE h[1].num_results + SumResults(Tail(h))

\* b ends with a.
IsSuffix(a, b) == Len(a) <= Len(b) /\ SubSeq(b, Len(b) - Len(a) + 1, Len(b)) = a

\* C26: the accumulated context is as long as the num_results of the
\* HopRecords so far add up to, plus the passages of the hop in progress; the
\* context every Reader call is given ends with that hop's new passages.
C26_ContextLengthIsResultsSum ==
    /\ Len(accumulated_context) = SumResults(hops) + Len(passage_texts)
    /\ \A i \in CallsOf("reader", "call") :
         IsSuffix(calls[i].arg.new_passages, calls[i].arg.accumulated_context)

C26_SecondReadOverTwoEntries ==
    /\ pc = "await_read"
    /\ Len(hops) = 1
    /\ hops[1].num_results = 1
    /\ Len(passage_texts) = 1
    /\ Len(accumulated_context) = 2

\* C27: the i-th HopRecord, counted from 0, has hop_number i, in the run and
\* in its RunRecord; a HopRecord once added is neither changed nor removed,
\* and a RunRecord once built stays as built.
C27_HopNumbersInOrderAndKept ==
    /\ [](/\ \A i \in 1..Len(hops) : hops[i].hop_number = i - 1
          /\ run_log.present => run_log.hops = hops)
    /\ [][/\ IsPrefix(hops, hops')
          /\ run_log.present => run_log' = run_log]_vars

C27_TwoRecordsNumbered ==
    /\ run_log.present
    /\ Len(run_log.hops) = 2
    /\ run_log.hops[1].hop_number = 0
    /\ run_log.hops[2].hop_number = 1

----------------------------------------------------------------------------
(* Termination of Agent::ask                                               *)

\* Planner responses for the runs followed to their end: one query, none.
FairPlannerTexts ==
    {RenderArray(<<<<"a">>>>, <<",", " ">>),
     <<"[", "]">>}

NextFair ==
    \/ PlanCall
    \/ PlanReturn(FairPlannerTexts)
    \/ PlanErr
    \/ HopBegin
    \/ LoopExit
    \/ SearchReturn(SearchResults)
    \/ SearchErr
    \/ ReadReturn(RunReaderTexts)
    \/ ReadErr
    \/ RecordHop
    \/ SynthCall
    \/ SynthReturn
    \/ SynthErr
    \/ Totals
    \/ TotalsPanic
    \/ WriteOpen
    \/ WriteOpenErr
    \/ WriteJson
    \/ WriteNewline
    \/ WriteErr

\* A run in which no step that can be taken is put off for ever: every call
\* in flight returns (with a result or an error) and ask() goes on from there.
SpecFair == Init /\ [][NextFair]_vars /\ WF_vars(NextFair)

\* The calls of a run that go to the model: Planner, Reader, Synthesizer.
ModelCalls ==
    Count("planner", "call") + Count("reader", "call") + Count("synthesizer", "call")

\* C23: if every external call returns, every run ends, done or failed
\* (an Err or a panic), whatever the Reader answers; it makes at most
\* max_hops + 2 calls to the model and at most max_hops Retriever calls.
C23_RunEndsWithinCallBudget ==
    /\ <>(pc \in {"done", "failed", "panicked"})
    /\ [](/\ ModelCalls <= max_hops + 2
          /\ Count("retriever", "call") <= max_hops)

C23_DoneOnFullBudget ==
    /\ pc = "done"
    /\ max_hops = MaxHops
    /\ ModelCalls = max_hops + 2
    /\ Count("retriever", "call") = max_hops
    /\ \A i \in CallsOf("reader", "ok") : calls[i].arg.kind = "Continue"

---------------------------------------------------------------------------
(* Planner::plan alone: the model's response ranges over rendered arrays,  *)
(* arrays inside other text, and short texts of punctuation.               *)

\* "decompose it into 1-4 specific search queries"
PlannerMaxQueries == 4

PlanArrays == SeqsUpTo(QueryValues, MaxArrayLen)

\* Whitespace before and after a response.
Paddings == {<< <<>>, <<>> >>, << <<" ">>, <<"\n">> >>}

\* A response that is a JSON array of strings and nothing else.
WholeArrayCases ==
    {[text |-> pad[1] \o RenderArray(a, sep) \o pad[2], items |-> a] :
        a \in PlanArrays, sep \in Separators, pad \in Paddings}

PlanPrefixes == {<<"x", " ">>, <<"]">>, <<"[">>}
PlanSuffixes == {<<>>, <<" ", "x">>, <<"]">>, <<"[">>}

\* An array of at most two strings with other text before and after it.
WrappedArrayCases ==
    {[text |-> pre \o RenderArray(a, <<",">>) \o post, items |-> a, pre |-> pre, post |-> post] :
        a \in {b \in PlanArrays : Len(b) <= 2}, pre \in PlanPrefixes, post \in PlanSuffixes}

JunkChars == {"[", "]", "x", Quote, ","}
JunkTexts == SeqsUpTo(JunkChars, MaxJunkLen)

AllPlannerTexts ==
    {c.text : c \in WholeArrayCases} \cup {c.text : c \in WrappedArrayCases} \cup JunkTexts

NextPlan ==
    \/ PlanCall
    \/ PlanReturn(AllPlannerTexts)

SpecPlan == Init /\ [][NextPlan]_vars

\* The responses that are a valid JSON array of 1 to 4 strings.
ValidArrayCases == {c \in WholeArrayCases : Len(c.items) \in 1..PlannerMaxQueries}
ValidArrayTexts == {c.text : c \in ValidArrayCases}

\* C7: for a response that is a valid JSON array of 1 to 4 strings, plan()
\* returns exactly that array: same elements, same order, same length.
C7_ValidArrayReturnedUnchanged ==
    plan_response.present =>
        \A c \in ValidArrayCases :
            plan_response.text = c.text =>
                /\ pc = "loop_head"
                /\ pending_queries = c.items
                /\ calls[Len(calls)] = Event("planner", "ok", c.items)

\* plan() returned four queries, one of them with an escaped quote, from a
\* response with whitespace around the array.
C7_FourQueriesPlanned ==
    /\ pc = "loop_head"
    /\ Len(pending_queries) = 4
    /\ \E i \in 1..4 : pending_queries[i] = <<"x", Quote, "]">>
    /\ plan_response.text \in ValidArrayTexts
    /\ plan_response.text[1] = " "

\* C8: for a response that is not a JSON array of 1 to 4 strings, plan()
\* returns a non-empty query list: never an empty one, never an abort.
C8_MalformedNeverEmptyNorAbort ==
    (plan_response.present /\ plan_response.text \notin ValidArrayTexts) =>
        /\ pc = "loop_head"
        /\ pending_queries # <<>>

Has(t, c) == \E i \in 1..Len(t) : t[i] = c

\* The responses that are no JSON array as a whole, while the text from
\* their first '[' to their last ']' is the rendered array.
SpanArrayCases == {c \in WrappedArrayCases : ~Has(c.pre, "[") /\ ~Has(c.post, "]")}

\* C18: when the whole response is no JSON array of strings but the text from
\* its first '[' to its last ']' is one, plan() returns the array parsed from
\* that text; a whole response that parses is returned as parsed; and the
\* list holding the question alone is returned only when the whole text and
\* the bracketed text both fail to parse.
C18_FallbackChainInOrder ==
    (plan_response.present /\ pc = "loop_head") =>
        /\ \A c \in WholeArrayCases :
             plan_response.text = c.text => pending_queries = c.items
        /\ \A c \in SpanArrayCases :
             plan_response.text = c.text =>
                 /\ ~FromStrVecString(c.text).ok
                 /\ pending_queries = c.items
        /\ pending_queries = <<Question>> =>
             /\ plan_response.text \notin {c.text : c \in WholeArrayCases \cup SpanArrayCases}
             /\ ~FromStrVecString(plan_response.text).ok
             /\ LET start == Find(plan_response.text, "[", 1)
                    end == RFind(plan_response.text, "]", Len(plan_response.text))
                IN  (start # 0 /\ end # 0) =>
                        ~FromStrVecString(SliceInclusive(plan_response.text, start, end)).ok

\* Two queries were planned from an array with prose before and after it.
C18_ArrayTakenFromInsideProse ==
    /\ pc = "loop_head"
    /\ \E c \in SpanArrayCases :
         /\ Len(c.items) = 2
         /\ c.post = <<" ", "x">>
         /\ plan_response.text = c.text
         /\ pending_queries = c.items

---------------------------------------------------------------------------
(* parse_decision alone: the Reader model's response ranges over rendered  *)
(* objects, objects inside other text, and texts that are no object.       *)

WordStop == <<"s", "t", "o", "p">>

\* What the object says for "decision" and for "follow_up_queries".
DecisionOptions == {"absent", "continue", "synthesize", "stop", "twice"}
FollowUpOptions == {"absent", "null", "empty", "one", "two", "numbers"}

FollowUpItems(f) ==
    CASE f = "one" -> <<<<"a">>>>
      [] f = "two" -> <<<<"a">>, <<"b", " ", "c">>>>
      [] OTHER -> <<>>

Field(key, value) == RenderString(key) \o <<":">> \o value

RenderDecision(d) ==
    CASE d = "absent" -> <<>>
      [] d = "continue" -> <<Field(KeyDecision, RenderString(WordContinue))>>
      [] d = "synthesize" -> <<Field(KeyDecision, RenderString(WordSynthesize))>>
      [] d = "stop" -> <<Field(KeyDecision, RenderString(WordStop))>>
      [] d = "twice" -> <<Field(KeyDecision, RenderString(WordContinue)),
                          Field(KeyDecision, RenderString(WordContinue))>>

RenderFollowUp(f) ==
    CASE f = "absent" -> <<>>
      [] f = "null" -> <<Field(KeyFollowUp, LitNull)>>
      [] f = "numbers" -> <<Field(KeyFollowUp, <<"[", "1", "]">>)>>
      [] OTHER -> <<Field(KeyFollowUp, RenderArray(FollowUpItems(f), <<",", " ">>))>>

\* A field the struct does not know: "n":{"k":[1,null]}
ExtraField == Field(<<"n">>, <<"{">> \o Field(<<"k">>, <<"[", "1", ",">> \o LitNull \o <<"]">>) \o <<"}">>)
RenderExtra(x) == IF x THEN <<ExtraField>> ELSE <<>>

\* The object with the chosen fields, decision first or last.
RenderObject(d, f, x, decisionFirst) ==
    <<"{">> \o Join(IF decisionFirst
                    THEN RenderDecision(d) \o RenderExtra(x) \o RenderFollowUp(f)
                    ELSE RenderFollowUp(f) \o RenderExtra(x) \o RenderDecision(d),
                    <<",", " ">>)
            \o <<"}">>

ReaderPrefixes == {<<>>, <<"o", "k", " ">>, <<"}", " ">>, <<"{">>}
ReaderSuffixes == {<<>>, <<" ", "x">>, <<" ", "}">>, <<"{">>}

ReaderCases ==
    {[text |-> pre \o RenderObject(d, f, x, o) \o post,
      d |-> d, f |-> f, pre |-> pre, post |-> post] :
        d \in DecisionOptions, f \in FollowUpOptions, x \in BOOLEAN, o \in BOOLEAN,
        pre \in ReaderPrefixes, post \in ReaderSuffixes}

\* Responses that hold no object: empty, bare words, lone or reversed braces,
\* and the fields written as a JSON array.
ReaderOtherTexts ==
    {<<>>, WordSynthesize, WordContinue, RenderString(WordContinue),
     <<"{">>, <<"}">>, <<"}", "{">>, <<"}", "x", "{">>,
     <<"[">> \o RenderString(WordContinue) \o <<"]">>,
     <<"[">> \o RenderString(WordContinue) \o <<",">> \o RenderArray(<<<<"a">>>>, <<",">>) \o <<"]">>}

AllReaderTexts == {c.text : c \in ReaderCases} \cup ReaderOtherTexts

\* A planner response that gives one query, to get a run to its first Reader call.
OneQueryTexts == {RenderArray(<<<<"a">>>>, <<",">>)}

InitRead == Init /\ max_hops = 1

NextRead ==
    \/ PlanCall
    \/ PlanReturn(OneQueryTexts)
    \/ HopBegin
    \/ SearchReturn(SearchResults)
    \/ ReadReturn(AllReaderTexts)

SpecRead == InitRead /\ [][NextRead]_vars

\* The responses whose object says continue, once, with a non-empty array of strings.
ContinueCases == {c \in ReaderCases : c.d = "continue" /\ c.f \in {"one", "two"}}

\* Those of them with no '{' before the object and no '}' after it.
BracesOutside(c) == Find(c.pre, "{", 1) # 0 \/ Find(c.post, "}", 1) # 0
CleanContinueCases == {c \in ContinueCases : ~BracesOutside(c)}

\* C9: every response other than a JSON object with decision "continue" and a
\* present, non-empty follow_up_queries list makes read() return Synthesize,
\* without failing.
C9_EverythingElseSynthesizes ==
    (reader_response.present /\ reader_response.text \notin {c.text : c \in ContinueCases}) =>
        /\ pc = "hop_end"
        /\ decision = Synthesize

\* C10 as stated: a response whose JSON object, possibly surrounded by other
\* text, says continue with a non-empty follow_up_queries array makes read()
\* return Continue with exactly that array.
C10_ContinueWithExactlyThatArray ==
    reader_response.present =>
        \A c \in ContinueCases :
            reader_response.text = c.text =>
                /\ pc = "hop_end"
                /\ decision = Continue(FollowUpItems(c.f))

\* C10 amended: the same when the other text has no '{' before the object
\* and no '}' after it.
C10_ContinueWhenNoBracesOutside ==
    reader_response.present =>
        \A c \in CleanContinueCases :
            reader_response.text = c.text =>
                /\ pc = "hop_end"
                /\ decision = Continue(FollowUpItems(c.f))

\* read() returned Continue with two queries from an object that has text
\* before it and after it.
C10_ContinueInsideText ==
    /\ pc = "hop_end"
    /\ decision = Continue(<<<<"a">>, <<"b", " ", "c">>>>)
    /\ \E c \in CleanContinueCases :
         /\ reader_response.text = c.text
         /\ c.pre = <<"o", "k", " ">>
         /\ c.post = <<" ", "x">>

---------------------------------------------------------------------------
(* Reader::read's prompt in runs whose searches return several passages    *)

\* Config.top_k in these runs.
PromptTopK == 4

\* A run of at most two hops whose Reader keeps saying Continue.
InitPrompt ==
    /\ top_k = PromptTopK
    /\ lines = <<>>
    /\ line_index = 0
    /\ run_logs = <<>>
    /\ errors = 0
    /\ output = <<>>
    /\ writers = <<>>
    /\ user_message = <<>>
    /\ max_hops = 2
    /\ pc = "start"
    /\ pending_queries = <<>>
    /\ hop_number = 0
    /\ hops = <<>>
    /\ accumulated_context = <<>>
    /\ plan_response = NoResponse
    /\ passage_texts = <<>>
    /\ reader_response = NoResponse
    /\ decision = NoDecision
    /\ synth_response = NoResponse
    /\ run_log = NoRunLog
    /\ store = InitialStore
    /\ result = NoResult
    /\ calls = <<>>

PromptReaderTexts == {ContinueObject(<<<<"c">>>>)}

NextPrompt ==
    \/ PlanCall
    \/ PlanReturn(OneQueryTexts)
    \/ HopBegin
    \/ SearchReturn(SearchResults)
    \/ ReadReturn(PromptReaderTexts)
    \/ RecordHop

SpecPrompt == InitPrompt /\ [][NextPrompt]_vars

RECURSIVE NumberedFrom(_, _)
\* The entries one per line, "[Context n] entry", numbered from n upwards.
NumberedFrom(entries, n) ==
    IF entries = <<>> THEN <<>>
    ELSE <<"[", "C", "o", "n", "t", "e", "x", "t", " ">> \o Decimal(n) \o <<"]", " ">>
            \o entries[1]
            \o (IF Len(entries) = 1 THEN <<>> ELSE <<"\n">> \o NumberedFrom(Tail(entries), n + 1))

\* What the claim says the prompt shows of a context.
ShownOfContext(context) ==
    IF Len(context) > 5
    THEN Decimal(Len(context))
            \o <<" ", "p", "a", "s", "s", "a", "g", "e", "s", " ",
                 "a", "c", "c", "u", "m", "u", "l", "a", "t", "e", "d", " ",
                 "s", "o", " ", "f", "a", "r", ".", " ",
                 "L", "a", "t", "e", "s", "t", " ", "5", ":", "\n">>
            \o NumberedFrom(SubSeq(context, Len(context) - 4, Len(context)), 1)
    ELSE NumberedFrom(context, 1)

\* The last n characters of a text, and the text without them.
Ending(t, n) == SubSeq(t, Len(t) - n + 1, Len(t))
Before(t, n) == SubSeq(t, 1, Len(t) - n)

\* C20: in the Reader's prompt a context of more than 5 entries is shown as
\* its total count followed by exactly its 5 latest entries, oldest of them
\* first; a context of 5 or fewer entries is shown whole, in order, with no
\* count before it.  The shown context ends the prompt and comes right
\* after the heading "Accumulated Context:".
C20_LatestFiveWithCount ==
    pc = "await_read" =>
        LET shown == ShownOfContext(accumulated_context)
            heading == <<"A", "c", "c", "u", "m", "u", "l", "a", "t", "e", "d", " ",
                         "C", "o", "n", "t", "e", "x", "t", ":", "\n">>
        IN  /\ Len(user_message) >= Len(shown) + Len(heading)
            /\ Ending(user_message, Len(shown)) = shown
            /\ Ending(Before(user_message, Len(shown)), Len(heading)) = heading

\* The Reader is called at the second hop with seven entries in the context,
\* the first of which differs from the third.
C20_SevenEntriesAtSecondHop ==
    /\ pc = "await_read"
    /\ Len(hops) = 1
    /\ Len(accumulated_context) = 7
    /\ accumulated_context[1] # accumulated_context[3]
    /\ accumulated_context[2] # accumulated_context[7]

----------------------------------------------------------------------------
(* truncate (reader.rs 125-131) on entries about 200 bytes long: runs of   *)
(* one hop whose search returns one passage of one-byte or multi-byte      *)
(* characters, seen through the Reader prompt of that hop.                 *)

\* How many bytes below and above 200 the entries reach.
MaxOver == 4

\* Characters of one to four bytes, and n times the character c.
CharKinds == {"b", "U2", "U3", "U4"}
Repeat(c, n) == [i \in 1..n |-> c]

\* Entries of TruncateAt - MaxOver to TruncateAt + MaxOver bytes: up to three
\* one-byte characters, then one character repeated, so that byte 200 falls
\* on every position inside a character of every width.
LongEntries ==
    {Repeat("a", lead) \o Repeat(c, (bytes - lead) \div ByteWidth(c)) :
        <<lead, c, bytes>> \in
            {x \in (0..3) \X CharKinds \X ((TruncateAt - MaxOver)..(TruncateAt + MaxOver)) :
                (x[3] - x[1]) % ByteWidth(x[2]) = 0}}

LongResults == {<<entry>> : entry \in LongEntries}

NextTruncate ==
    \/ PlanCall
    \/ PlanReturn(OneQueryTexts)
    \/ HopBegin
    \/ SearchReturn(LongResults)

SpecTruncate == InitRead /\ [][NextTruncate]_vars

\* What the prompt shows of the one entry of the context: the text after the
\* label "[Context 1] ", which ends the prompt.
ShownEntry ==
    LET closing == {i \in 1..Len(user_message) : user_message[i] = "]"}
    IN  SubSeq(user_message, (CHOOSE i \in closing : \A j \in closing : j <= i) + 2,
               Len(user_message))

\* The byte indices of e that are character boundaries.
Boundaries(e) == {ByteIndex(e, k) : k \in 0..Len(e)}

\* C21: the text shown for a context entry is a prefix of the entry of at
\* most 200 characters that ends on a character boundary of the entry, and
\* an entry of at most 200 characters is shown unchanged.
C21_ShownWithinLimitUnsplit ==
    (pc = "await_read" /\ Len(accumulated_context) = 1) =>
      LET entry == accumulated_context[1]
      IN  /\ IsPrefix(ShownEntry, entry)
          /\ Len(ShownEntry) <= TruncateAt
          /\ ByteLen(ShownEntry) \in Boundaries(entry)
          /\ Len(entry) <= TruncateAt => ShownEntry = entry

---------------------------------------------------------------------------
(* main (main.rs 58-119): the single-question command and the batch        *)
(* evaluation around Agent::ask; RunLog::summary (logger.rs 43-61).        *)
(* Standard output is kept as the sequence of things printed; latencies,   *)
(* averages and cost are left out of what is printed.                      *)

\* self.total_llm_input_tokens + self.total_llm_output_tokens, before it is
\* cut to 32 bits (logger.rs 43-45).
TotalTokens(r) == ExactAdd(r.total_llm_input_tokens, r.total_llm_output_tokens)

RECURSIVE TokensRetrieved(_)
\* self.hops.iter().map(|h| h.tokens_in_passages).sum::<u32>()
TokensRetrieved(hs) ==
    IF hs = <<>> THEN 0 ELSE hs[1].tokens_in_passages + TokensRetrieved(Tail(hs))

\* println!("\n{}\n", run_log.final_answer)
AnswerPrinted(r) == [kind |-> "answer", text |-> r.final_answer]

\* RunLog::summary (logger.rs 52-61) with total_tokens() as given.
SummaryPrinted(r, total_tokens) ==
    [kind |-> "summary", hops |-> Len(r.hops),
     tokens_retrieved |-> TokensRetrieved(r.hops), tokens |-> total_tokens]

\* Commands::Ask, main.rs 64-66: the run returned Ok; answer and summary are
\* printed (a build without overflow checks, or no overflow).
AskPrint ==
    /\ pc = "done"
    /\ output' = output \o <<AnswerPrinted(run_log),
                             SummaryPrinted(run_log, Wrap(TotalTokens(run_log)))>>
    /\ pc' = "exit_ok"
    /\ UNCHANGED <<top_k, lines, line_index, run_logs, errors, writers, user_message,
                   max_hops, pending_queries, hop_number, hops, accumulated_context,
                   plan_response, passage_texts, reader_response, decision,
                   synth_response, run_log, store, result, calls>>

\* The same in a build with overflow checks when total_tokens() overflows:
\* the answer is printed, then summary() panics.
AskPrintPanic ==
    /\ pc = "done"
    /\ Overflows(TotalTokens(run_log))
    /\ output' = Append(output, AnswerPrinted(run_log))
    /\ pc' = "panicked"
    /\ UNCHANGED <<top_k, lines, line_index, run_logs, errors, writers, user_message,
                   max_hops, pending_queries, hop_number, hops, accumulated_context,
                   plan_response, passage_texts, reader_response, decision,
                   synth_response, run_log, store, result, calls>>

\* agent.ask(..).await? on an Err: main returns it, nothing is printed.
AskFail ==
    /\ pc = "failed"
    /\ pc' = "exit_err"
    /\ UNCHANGED <<frame, user_message, max_hops, pending_queries, hop_number, hops,
                   accumulated_context, plan_response, passage_texts, reader_response,
                   decision, synth_response, run_log, store, result, calls>>

NextAsk ==
    \/ PlanCall
    \/ PlanReturn(RunPlannerTexts)
    \/ PlanErr
    \/ HopBegin
    \/ LoopExit
    \/ SearchReturn(SearchResults)
    \/ SearchErr
    \/ ReadReturn(RunReaderTexts)
    \/ ReadErr
    \/ RecordHop
    \/ SynthCall
    \/ SynthReturn
    \/ SynthErr
    \/ Totals
    \/ TotalsPanic
    \/ WriteOpen
    \/ WriteOpenErr
    \/ WriteJson
    \/ WriteNewline
    \/ WriteErr
    \/ AskPrint
    \/ AskPrintPanic
    \/ AskFail

\* The single-question command: one run and what main does with its result.
SpecAsk == Init /\ [][NextAsk]_vars

---------------------------------------------------------------------------
(* Commands::Eval (main.rs 68-115): the batch loop over the lines of the   *)
(* evaluation file, one Agent::ask per question, and the final summary.    *)

\* The most lines an evaluation file has.
MaxLines == 2

\* A line of the file: a question, a blank line, or one that is no
\* EvalQuestion.
LineKinds == {"question", "blank", "malformed"}
EvalInputs == SeqsUpTo(LineKinds, MaxLines)

\* How many of the first n lines are questions.
QuestionsIn(n) == Cardinality({i \in 1..n : lines[i] = "question"})

\* run_logs.iter().map(|r| r.total_tokens()).sum(), exact (main.rs 107).
BatchTokens(logs) == ExactSum([i \in 1..Len(logs) |-> Wrap(TotalTokens(logs[i]))])

\* println!("Questions: {} (errors: {})", run_logs.len(), errors) and the
\* totals printed after it (main.rs 100-113).
EvalSummaryPrinted(logs, errs, total_tokens) ==
    [kind |-> "evaluation", questions |-> Len(logs), errors |-> errs,
     tokens |-> total_tokens]

\* The batch starts on a file of lines with an agent of at most one hop.
InitEval ==
    /\ top_k = TopK
    /\ lines \in EvalInputs
    /\ line_index = 0
    /\ run_logs = <<>>
    /\ errors = 0
    /\ output = <<>>
    /\ writers = <<>>
    /\ user_message = <<>>
    /\ max_hops \in {0, 1}
    /\ pc = "eval_head"
    /\ pending_queries = <<>>
    /\ hop_number = 0
    /\ hops = <<>>
    /\ accumulated_context = <<>>
    /\ plan_response = NoResponse
    /\ passage_texts = <<>>
    /\ reader_response = NoResponse
    /\ decision = NoDecision
    /\ synth_response = NoResponse
    /\ run_log = NoRunLog
    /\ store = InitialStore
    /\ result = NoResult
    /\ calls = <<>>

\* if line.trim().is_empty() { continue; }
EvalBlank ==
    /\ pc = "eval_head"
    /\ line_index < Len(lines)
    /\ lines[line_index + 1] = "blank"
    /\ line_index' = line_index + 1
    /\ UNCHANGED <<top_k, lines, run_logs, errors, output, writers, user_message,
                   max_hops, pc, pending_queries, hop_number, hops, accumulated_context,
                   plan_response, passage_texts, reader_response, decision,
                   synth_response, run_log, store, result, calls>>

\* serde_json::from_str(&line).context(..)? on a line that does not parse:
\* main returns the error.
EvalMalformed ==
    /\ pc = "eval_head"
    /\ line_index < Len(lines)
    /\ lines[line_index + 1] = "malformed"
    /\ line_index' = line_index + 1
    /\ pc' = "exit_err"
    /\ UNCHANGED <<top_k, lines, run_logs, errors, output, writers, user_message,
                   max_hops, pending_queries, hop_number, hops, accumulated_context,
                   plan_response, passage_texts, reader_response, decision,
                   synth_response, run_log, store, result, calls>>

\* agent.ask(&eq.question, ..) is entered: a new run with its own locals.
EvalAsk ==
    /\ pc = "eval_head"
    /\ line_index < Len(lines)
    /\ lines[line_index + 1] = "question"
    /\ line_index' = line_index + 1
    /\ pc' = "start"
    /\ pending_queries' = <<>>
    /\ hop_number' = 0
    /\ hops' = <<>>
    /\ accumulated_context' = <<>>
    /\ plan_response' = NoResponse
    /\ passage_texts' = <<>>
    /\ reader_response' = NoResponse
    /\ decision' = NoDecision
    /\ synth_response' = NoResponse
    /\ run_log' = NoRunLog
    /\ result' = NoResult
    /\ calls' = <<>>
    /\ user_message' = <<>>
    /\ UNCHANGED <<top_k, lines, run_logs, errors, output, writers, max_hops, store>>

\* Ok(run_log): its summary is printed and it is kept (main.rs 88-91).
EvalOk ==
    /\ pc = "done"
    /\ output' = Append(output, SummaryPrinted(run_log, Wrap(TotalTokens(run_log))))
    /\ run_logs' = Append(run_logs, run_log)
    /\ pc' = "eval_head"
    /\ UNCHANGED <<top_k, lines, line_index, errors, writers, user_message,
                   max_hops, pending_queries, hop_number, hops, accumulated_context,
                   plan_response, passage_texts, reader_response, decision,
                   synth_response, run_log, store, result, calls>>

\* The same in a build with overflow checks when total_tokens() overflows:
\* summary() panics.
EvalOkPanic ==
    /\ pc = "done"
    /\ Overflows(TotalTokens(run_log))
    /\ pc' = "panicked"
    /\ UNCHANGED <<frame, user_message, max_hops, pending_queries, hop_number, hops,
                   accumulated_context, plan_response, passage_texts, reader_response,
                   decision, synth_response, run_log, store, result, calls>>

\* Err(e): the error is reported on standard error and counted (main.rs 92-95).
EvalErr ==
    /\ pc = "failed"
    /\ errors' = errors + 1
    /\ pc' = "eval_head"
    /\ UNCHANGED <<top_k, lines, line_index, run_logs, output, writers, user_message,
                   max_hops, pending_queries, hop_number, hops, accumulated_context,
                   plan_response, passage_texts, reader_response, decision,
                   synth_response, run_log, store, result, calls>>

\* The lines are exhausted: the summary is printed if any run succeeded
\* (main.rs 99-114), and main returns Ok.
EvalEnd ==
    /\ pc = "eval_head"
    /\ line_index = Len(lines)
    /\ output' = IF run_logs # <<>>
                 THEN Append(output, EvalSummaryPrinted(run_logs, errors,
                                                        Wrap(BatchTokens(run_logs))))
                 ELSE output
    /\ pc' = "exit_ok"
    /\ UNCHANGED <<top_k, lines, line_index, run_logs, errors, writers, user_message,
                   max_hops, pending_queries, hop_number, hops, accumulated_context,
                   plan_response, passage_texts, reader_response, decision,
                   synth_response, run_log, store, result, calls>>

\* The same in a build with overflow checks when a total_tokens() or their
\* sum overflows (main.rs 107).
EvalEndPanic ==
    /\ pc = "eval_head"
    /\ line_index = Len(lines)
    /\ run_logs # <<>>
    /\ \/ Overflows(BatchTokens(run_logs))
       \/ \E i \in 1..Len(run_logs) : Overflows(TotalTokens(run_logs[i]))
    /\ pc' = "panicked"
    /\ UNCHANGED <<frame, user_message, max_hops, pending_queries, hop_number, hops,
                   accumulated_context, plan_response, passage_texts, reader_response,
                   decision, synth_response, run_log, store, result, calls>>

\* Planner responses in a batch: one query, brackets the wrong way round.
EvalPlannerTexts == {RenderArray(<<<<"a">>>>, <<",">>), <<"]", "x", "[">>}
\* Reader responses in a batch.
EvalReaderTexts == {SynthesizeObject}

NextEval ==
    \/ EvalBlank
    \/ EvalMalformed
    \/ EvalAsk
    \/ PlanCall
    \/ PlanReturn(EvalPlannerTexts)
    \/ PlanErr
    \/ HopBegin
    \/ LoopExit
    \/ SearchReturn(SearchResults)
    \/ SearchErr
    \/ ReadReturn(EvalReaderTexts)
    \/ ReadErr
    \/ RecordHop
    \/ SynthCall
    \/ SynthReturn
    \/ SynthErr
    \/ Totals
    \/ TotalsPanic
    \/ WriteOpen
    \/ WriteOpenErr
    \/ WriteJson
    \/ WriteNewline
    \/ WriteErr
    \/ EvalOk
    \/ EvalOkPanic
    \/ EvalErr
    \/ EvalEnd
    \/ EvalEndPanic

SpecEval == InitEval /\ [][NextEval]_vars

\* C13: in a batch a failed run never stops the batch: no run ends the
\* process, between runs every question taken so far has either given a
\* RunRecord or been counted as an error (collected + errors = questions
\* processed), and when main returns Ok every line has been taken.
C13_FailedRunNeverStopsBatch ==
    /\ ~(pc = "panicked" /\ result.kind = "panic")
    /\ pc \in {"eval_head", "exit_ok"} =>
         Len(run_logs) + errors = QuestionsIn(line_index)
    /\ pc = "exit_ok" => line_index = Len(lines)

\* Whether the evaluation summary is among what was printed.
EvalSummaries == {i \in 1..Len(output) : output[i].kind = "evaluation"}

\* C14: after every batch evaluation, also when some or all questions
\* failed, a summary has been printed whose question count is the number of
\* questions of the batch and whose error count is the number of failed runs.
C14_SummaryCountsQuestions ==
    pc = "exit_ok" =>
        \E i \in EvalSummaries :
            /\ output[i].questions = QuestionsIn(Len(lines))
            /\ output[i].errors = errors

\* The runs of the batch that returned Ok, in order.
OkRuns ==
    run_logs \o (IF pc \in {"done", "panicked"} /\ result.kind = "ok"
                 THEN <<run_log>> ELSE <<>>)

\* C15: the telemetry store is append-only with one record per successful
\* run: whenever no write is under way, the store is what it was before the
\* batch followed by one complete line per run that returned Ok, in order.
C15_OneLinePerOkRun ==
    pc \notin {"write_json", "write_newline"} =>
        store = InitialStore
                  \o Flatten([i \in 1..Len(OkRuns) |-> <<JsonChunk(OkRuns[i]), NewlineChunk>>])

\* C17: when the telemetry write fails (the Synthesizer has succeeded by
\* then), Agent::ask returns that error and neither the RunRecord nor the
\* answer: the single-question command prints nothing, and the write is not
\* tried again (the failure is the last thing the run does).
C17_WriteFailureIsFatal ==
    \A i \in CallsOf("logger", "err") :
        /\ i = Len(calls)
        /\ Count("logger", "call") = 1
        /\ Count("logger", "ok") = 0
        /\ Count("synthesizer", "ok") = 1
        /\ synth_response.present
        /\ result = [kind |-> "err", at |-> "logger"]
        /\ pc \in {"failed", "exit_err"}
        /\ output = <<>>
        /\ pc = "failed" => ENABLED AskFail /\ ~ENABLED AskPrint

\* The write failed after the record's text was written; main has returned
\* the error.
C17_WriteFailedAfterText ==
    /\ pc = "exit_err"
    /\ result = [kind |-> "err", at |-> "logger"]
    /\ Len(store) = Len(InitialStore) + 1
    /\ synth_response.text = <<"A">>

---------------------------------------------------------------------------
(* RunLogger::write (logger.rs 75-87) called by several runs at the same   *)
(* time on the same runs.jsonl.  The file is opened for append, so every   *)
(* write lands whole at the end of the file; writeln! makes two writes.    *)

\* How many runs write at the same time.
Writers == 3

\* The RunLog writer w has to write.
RecordOf(w) == [NoRunLog EXCEPT !.present = TRUE, !.final_answer = Decimal(w)]

\* Every run has built its RunLog and is about to call write (mod.rs 178).
InitConcurrent ==
    /\ top_k = TopK
    /\ lines = <<>>
    /\ line_index = 0
    /\ run_logs = <<>>
    /\ errors = 0
    /\ output = <<>>
    /\ writers = [w \in 1..Writers |-> [pc |-> "write", run_log |-> RecordOf(w)]]
    /\ user_message = <<>>
    /\ max_hops = 0
    /\ pc = "write"
    /\ pending_queries = <<>>
    /\ hop_number = 0
    /\ hops = <<>>
    /\ accumulated_context = <<>>
    /\ plan_response = NoResponse
    /\ passage_texts = <<>>
    /\ reader_response = NoResponse
    /\ decision = NoDecision
    /\ synth_response = NoResponse
    /\ run_log = NoRunLog
    /\ store = InitialStore
    /\ result = NoResult
    /\ calls = <<>>

\* What a step of one writer leaves alone.
writerFrame ==
    <<top_k, lines, line_index, run_logs, errors, output, user_message, max_hops, pc,
      pending_queries, hop_number, hops, accumulated_context, plan_response,
      passage_texts, reader_response, decision, synth_response, run_log, result, calls>>

\* OpenOptions::new().create(true).append(true).open(&path)
ConcurrentOpen(w) ==
    /\ writers[w].pc = "write"
    /\ writers' = [writers EXCEPT ![w].pc = "write_json"]
    /\ UNCHANGED <<writerFrame, store>>

\* The first write of writeln!: the record's text.
ConcurrentJson(w) ==
    /\ writers[w].pc = "write_json"
    /\ store' = Append(store, JsonChunk(writers[w].run_log))
    /\ writers' = [writers EXCEPT ![w].pc = "write_newline"]
    /\ UNCHANGED writerFrame

\* The second write of writeln!: the line terminator.
ConcurrentNewline(w) ==
    /\ writers[w].pc = "write_newline"
    /\ store' = Append(store, NewlineChunk)
    /\ writers' = [writers EXCEPT ![w].pc = "done"]
    /\ UNCHANGED writerFrame

NextConcurrent ==
    \/ \E w \in 1..Writers : ConcurrentOpen(w)
    \/ \E w \in 1..Writers : ConcurrentJson(w)
    \/ \E w \in 1..Writers : ConcurrentNewline(w)

SpecConcurrent == InitConcurrent /\ [][NextConcurrent]_vars

\* The records of the complete lines of a store: a record's text followed at
\* once by a line terminator.
CompleteLines(s) ==
    {i \in 1..Len(s) - 1 : s[i].kind = "json" /\ s[i + 1].kind = "newline"}

\* C16: when several runs write the store at the same time, under every
\* interleaving of their write steps the store ends up with one complete,
\* unbroken line per write call: every record's text is followed at once by
\* its own line terminator, and no record is lost.
C16_OneUnbrokenLinePerWrite ==
    (\A w \in 1..Writers : writers[w].pc = "done") =>
        /\ Len(store) = Len(InitialStore) + 2 * Writers
        /\ \A i \in 1..Len(store) :
             store[i].kind = (IF i % 2 = 1 THEN "json" ELSE "newline")
        /\ \A w \in 1..Writers :
             \E i \in CompleteLines(store) : store[i].run = RecordOf(w)

====
